---- MODULE Spec2Model ----
(***************************************************************************)
(* Sales ingestion pipeline of the collection tracker:                     *)
(* src/lib/unified-scraper.ts (scrapeAndStorePlayer and its helpers) and   *)
(* the standalone cron script (scrapePlayer), both writing the table       *)
(* individual_sales of one SQLite file.                                    *)
(*                                                                         *)
(* Strings are sequences of one-character strings, so that includes,       *)
(* toLowerCase, trim and the regular expressions are computed character    *)
(* by character, as the code computes them.                                *)
(***************************************************************************)
EXTENDS Integers, Sequences, FiniteSets, TLC

(***************************************************************************)
(* Characters and strings                                                  *)
(***************************************************************************)
UPPER == <<"A","B","C","D","E","F","G","H","I","J","K","L","M","N","O","P","Q","R","S","T","U","V","W","X","Y","Z">>
LOWER == <<"a","b","c","d","e","f","g","h","i","j","k","l","m","n","o","p","q","r","s","t","u","v","w","x","y","z">>
DIGITS == <<"0","1","2","3","4","5","6","7","8","9">>

Range(f) == {f[i] : i \in DOMAIN f}

SetMin(S) == CHOOSE x \in S : \A y \in S : x <= y

IsDigit(c) == \E k \in 1..Len(DIGITS) : DIGITS[k] = c

DigitVal(c) == (CHOOSE k \in 1..Len(DIGITS) : DIGITS[k] = c) - 1

\* \w of the regular expressions: letters, digits and the underscore
IsWordChar(c) == IsDigit(c) \/ c = "_" \/ (\E k \in 1..Len(UPPER) : UPPER[k] = c \/ LOWER[k] = c)

\* \s of the regular expressions (the titles hold no other white space)
IsSpace(c) == c = " "

LowerChar(c) == IF \E k \in 1..Len(UPPER) : UPPER[k] = c
                THEN LOWER[CHOOSE k \in 1..Len(UPPER) : UPPER[k] = c]
                ELSE c

toLowerCase(s) == [i \in 1..Len(s) |-> LowerChar(s[i])]

\* String.prototype.trim
trim(s) ==
    LET keep == {i \in 1..Len(s) : ~IsSpace(s[i])}
    IN  IF keep = {} THEN <<>>
        ELSE SubSeq(s, SetMin(keep), CHOOSE i \in keep : \A k \in keep : k <= i)

\* String.prototype.includes
includes(s, sub) ==
    \E i \in 0..(Len(s) - Len(sub)) : \A j \in 1..Len(sub) : s[i + j] = sub[j]

\* \b between the characters i and i+1 of s (i = 0: before the first character)
WordBoundary(s, i) ==
    ((i >= 1 /\ i <= Len(s)) /\ IsWordChar(s[i]))
        # ((i + 1 >= 1 /\ i + 1 <= Len(s)) /\ IsWordChar(s[i + 1]))

\* s[i..j] is a non-empty run of digits: \d+
DigitRun(s, i, j) == i >= 1 /\ i <= j /\ j <= Len(s) /\ \A k \in i..j : IsDigit(s[k])

\* the character i of s, case-folded; "" outside s
At(s, i) == IF i >= 1 /\ i <= Len(s) THEN LowerChar(s[i]) ELSE ""

(***************************************************************************)
(* Constants of unified-scraper.ts                                         *)
(***************************************************************************)
PARALLEL_COLORS == <<
    <<"r","e","f","r","a","c","t","o","r">>, <<"s","h","i","m","m","e","r">>, <<"s","p","e","c","k","l","e">>, <<"m","o","j","o">>, <<"l","a","v","a">>, <<"w","a","v","e">>,
    <<"s","a","p","p","h","i","r","e">>, <<"a","q","u","a">>, <<"s","k","y"," ","b","l","u","e">>,
    <<"p","u","r","p","l","e">>, <<"b","l","u","e">>, <<"g","r","e","e","n">>, <<"g","o","l","d">>, <<"o","r","a","n","g","e">>, <<"r","e","d">>, <<"y","e","l","l","o","w">>,
    <<"p","i","n","k">>, <<"b","l","a","c","k">>,
    <<"a","t","o","m","i","c">>, <<"p","r","i","s","m">>, <<"h","y","p","e","r">>, <<"x","-","f","r","a","c","t","o","r">> >>

GRADED_INDICATORS == <<
    <<"p","s","a">>, <<"b","g","s">>, <<"s","g","c">>, <<"c","g","c">>, <<"h","g","a">>, <<"c","s","g">>,
    <<"g","e","m"," ","m","i","n","t">>, <<"g","e","m"," ","m","t"," ","1","0">>, <<"m","i","n","t"," ","9">>, <<"p","e","r","f","e","c","t"," ","1","0">>, <<"p","r","i","s","t","i","n","e">> >>

LOT_INDICATORS == <<
    <<"(","2",")">>, <<"(","3",")">>, <<"(","4",")">>, <<"(","5",")">>, <<"(","6",")">>, <<"(","1","0",")">>, <<"(","2","0",")">>,
    <<"[","2","]">>, <<"[","3","]">>, <<"[","4","]">>, <<"[","5","]">>, <<"[","6","]">>, <<"[","1","0","]">>, <<"[","2","0","]">>,
    <<"l","o","t">>, <<"b","u","n","d","l","e">>, <<"s","e","t"," ","o","f">>, <<"c","o","l","l","e","c","t","i","o","n"," ","o","f">>, <<"g","r","o","u","p">>,
    <<"&"," ">>, <<" ","a","n","d"," ">>, <<" ","+"," ">> >>

EXCLUDED_PRODUCTS == <<
    <<"t","o","p","p","s"," ","c","h","r","o","m","e">>, <<"p","a","n","i","n","i">>, <<"d","o","n","r","u","s","s">>, <<"p","r","i","z","m">>, <<"c","o","n","t","e","n","d","e","r","s">>,
    <<"l","e","a","f">>, <<"s","t","e","r","l","i","n","g">>, <<"h","e","r","i","t","a","g","e">>, <<"f","i","n","e","s","t">>,
    <<"a","r","i","z","o","n","a"," ","f","a","l","l"," ","l","e","a","g","u","e">>, <<"f","a","l","l"," ","l","e","a","g","u","e">>, <<"a","f","l","a","c">>,
    <<"r","e","d","e","m","p","t","i","o","n">>, <<"v","i","p">>, <<"r","e","l","i","c">>, <<"p","a","t","c","h">>,
    <<"b","u","n","t">>, <<"d","i","g","i","t","a","l">>, <<"n","f","t">>, <<"v","i","r","t","u","a","l">>,
    <<"b","o","w","m","a","n"," ","u">>, <<"b","o","w","m","a","n"," ","u","n","i","v","e","r","s","i","t","y">>,
    <<"m","e","g","a">> >>

IP_AUTOGRAPH_INDICATORS == <<
    <<" ","i","p"," ">>, <<" ","i","p"," ","a","u","t","o">>, <<"i","n"," ","p","e","r","s","o","n">>, <<"i","n","-","p","e","r","s","o","n">>, <<"s","i","g","n","e","d"," ","i","n">>,
    <<"s","i","g","n","e","d"," ","a","t">>, <<"s","i","g","n","e","d"," ","b","y">>, <<"h","a","n","d"," ","s","i","g","n","e","d">>, <<"h","a","n","d","-","s","i","g","n","e","d">>,
    <<"a","u","t","h","e","n","t","i","c"," ","a","u","t","o">>, <<"c","o","n","v","e","n","t","i","o","n">>, <<"m","e","e","t"," ","a","n","d"," ","g","r","e","e","t">>,
    <<"a","u","t","o","g","r","a","p","h"," ","e","v","e","n","t">>, <<"s","i","g","n","i","n","g"," ","e","v","e","n","t">> >>

\* LOT_QUANTITY_PATTERNS[p] matches s[i..j]; all seven carry the flag i.
\*   1 \(x\d+\)   2 \[x\d+\]   3 \(\d+x\)   4 \[\d+x\]   5 \bx\d+\b
\*   6 \(\d+\s*cards?\)   7 \[\d+\s*cards?\]
CardsTail(s, d, j, close) ==
    \E w \in d..j :
        /\ \A k \in (d + 1)..w : IsSpace(s[k])
        /\ At(s, w + 1) = "c" /\ At(s, w + 2) = "a" /\ At(s, w + 3) = "r" /\ At(s, w + 4) = "d"
        /\ \/ (j = w + 5 /\ At(s, j) = close)
           \/ (j = w + 6 /\ At(s, w + 5) = "s" /\ At(s, j) = close)

LotQuantityMatch(p, s, i, j) ==
    CASE p = 1 -> At(s, i) = "(" /\ At(s, i + 1) = "x" /\ DigitRun(s, i + 2, j - 1) /\ At(s, j) = ")"
      [] p = 2 -> At(s, i) = "[" /\ At(s, i + 1) = "x" /\ DigitRun(s, i + 2, j - 1) /\ At(s, j) = "]"
      [] p = 3 -> At(s, i) = "(" /\ DigitRun(s, i + 1, j - 2) /\ At(s, j - 1) = "x" /\ At(s, j) = ")"
      [] p = 4 -> At(s, i) = "[" /\ DigitRun(s, i + 1, j - 2) /\ At(s, j - 1) = "x" /\ At(s, j) = "]"
      [] p = 5 -> WordBoundary(s, i - 1) /\ At(s, i) = "x" /\ DigitRun(s, i + 1, j) /\ WordBoundary(s, j)
      [] p = 6 -> At(s, i) = "(" /\ \E d \in (i + 1)..j : DigitRun(s, i + 1, d) /\ CardsTail(s, d, j, ")")
      [] p = 7 -> At(s, i) = "[" /\ \E d \in (i + 1)..j : DigitRun(s, i + 1, d) /\ CardsTail(s, d, j, "]")

NumLotQuantityPatterns == 7

\* title.match(pattern): the matched text match[0] of the leftmost match, <<>> if none
LotQuantityText(p, s) ==
    LET spans == {ij \in (1..Len(s)) \X (1..Len(s)) :
                     /\ ij[1] <= ij[2]
                     /\ At(s, ij[1]) \in {"(", "[", "x"}
                     /\ LotQuantityMatch(p, s, ij[1], ij[2])}
    IN  IF spans = {} THEN <<>>
        ELSE LET i == SetMin({ij[1] : ij \in spans})
                 j == CHOOSE k \in 1..Len(s) : <<i, k>> \in spans
             IN  SubSeq(s, i, j)

\* SERIAL_PATTERN = /\/\d{1,4}\b/ tested on s
SERIAL_PATTERN(s) ==
    \E i \in 1..Len(s) :
        /\ s[i] = "/"
        /\ \E n \in 1..4 : DigitRun(s, i + 1, i + n) /\ WordBoundary(s, i + n)

\* YEAR_PATTERN = /\b(20[1-2][0-9])\b/g: the start positions of its matches in s
YEAR_PATTERN(s) ==
    {i \in 1..Len(s) :
        /\ WordBoundary(s, i - 1)
        /\ At(s, i) = "2" /\ At(s, i + 1) = "0"
        /\ At(s, i + 2) \in {"1", "2"}
        /\ i + 3 <= Len(s) /\ IsDigit(s[i + 3])
        /\ WordBoundary(s, i + 3)}

\* null of `releaseYear: number | null` and of an omitted targetYear (both falsy)
NoYear == 0

\* extractYear: parseInt of the first match, null if none
extractYear(title) ==
    LET m == YEAR_PATTERN(title)
    IN  IF m = {} THEN NoYear
        ELSE LET i == SetMin(m)
             IN  2000 + 10 * DigitVal(title[i + 2]) + DigitVal(title[i + 3])

\* normalizeEbayUrl: origin + pathname, i.e. the URL up to its first ? or #.
\* A URL is written without its constant prefix https://www.ebay.com/itm/,
\* which the anchor pattern of parseHtmlResponse requires of every listing.
normalizeEbayUrl(url) ==
    LET cut == {i \in 1..Len(url) : url[i] \in {"?", "#"}}
    IN  IF cut = {} THEN url ELSE SubSeq(url, 1, SetMin(cut) - 1)

\* titleContainsPlayerName: the parts of the name of more than 2 characters,
\* split at /[\s-]+/, all occur in the title; false when there is no such part
IsNameSeparator(c) == IsSpace(c) \/ c = "-"

NameParts(lowerName) ==
    LET n == Len(lowerName)
        starts == {i \in 1..n : ~IsNameSeparator(lowerName[i])
                                /\ (i = 1 \/ IsNameSeparator(lowerName[i - 1]))}
        EndOf(i) == CHOOSE j \in i..n :
                        /\ \A k \in i..j : ~IsNameSeparator(lowerName[k])
                        /\ (j = n \/ IsNameSeparator(lowerName[j + 1]))
    IN  {p \in {SubSeq(lowerName, i, EndOf(i)) : i \in starts} : Len(p) > 2}

titleContainsPlayerName_AnyPart(title, playerName) ==
    \E part \in NameParts(toLowerCase(playerName)) : includes(toLowerCase(title), part)

titleContainsPlayerName(title, playerName) ==
    LET lowerTitle == toLowerCase(title)
        nameParts == NameParts(toLowerCase(playerName))
    IN  (\A part \in nameParts : includes(lowerTitle, part)) /\ Cardinality(nameParts) > 0

(***************************************************************************)
(* categorizeListingSale                                                   *)
(***************************************************************************)
\* index of the first entry of list that s includes, 0 if none (for ... break)
FirstIncluded(list, s) ==
    LET hits == {k \in 1..Len(list) : includes(s, list[k])}
    IN  IF hits = {} THEN 0 ELSE SetMin(hits)

FirstLotQuantity(title) ==
    LET hits == {p \in 1..NumLotQuantityPatterns : LotQuantityText(p, title) # <<>>}
    IN  IF hits = {} THEN 0 ELSE SetMin(hits)

\* exclusionReason: the rule that set it and the text the code appends to it
NoReason == [rule |-> "undefined", detail |-> <<>>]

\* the three locals of categorizeListingSale
Flags(isBaseAuto, isRefractor, exclusionReason) ==
    [isBaseAuto |-> isBaseAuto, isRefractor |-> isRefractor,
     exclusionReason |-> exclusionReason]

InitialFlags == Flags(TRUE, FALSE, NoReason)

\* the blocks of categorizeListingSale, in the order of the code: each takes
\* the locals c as the blocks before it left them
CheckGraded(lowerTitle, c) ==
    IF FirstIncluded(GRADED_INDICATORS, lowerTitle) # 0
    THEN Flags(FALSE, c.isRefractor,
               [rule |-> "Graded card",
                detail |-> GRADED_INDICATORS[FirstIncluded(GRADED_INDICATORS, lowerTitle)]])
    ELSE c

CheckLot(lowerTitle, c) ==
    IF c.isBaseAuto /\ FirstIncluded(LOT_INDICATORS, lowerTitle) # 0
    THEN Flags(FALSE, c.isRefractor,
               [rule |-> "Lot/bundle",
                detail |-> LOT_INDICATORS[FirstIncluded(LOT_INDICATORS, lowerTitle)]])
    ELSE c

CheckLotQuantity(title, c) ==
    IF c.isBaseAuto /\ FirstLotQuantity(title) # 0
    THEN Flags(FALSE, c.isRefractor,
               [rule |-> "Lot quantity",
                detail |-> LotQuantityText(FirstLotQuantity(title), title)])
    ELSE c

CheckProduct(lowerTitle, c) ==
    IF c.isBaseAuto /\ FirstIncluded(EXCLUDED_PRODUCTS, lowerTitle) # 0
    THEN Flags(FALSE, c.isRefractor,
               [rule |-> "Wrong product",
                detail |-> EXCLUDED_PRODUCTS[FirstIncluded(EXCLUDED_PRODUCTS, lowerTitle)]])
    ELSE c

CheckIP_Skipped(lowerTitle, c) == c

CheckIP(lowerTitle, c) ==
    IF c.isBaseAuto /\ FirstIncluded(IP_AUTOGRAPH_INDICATORS, lowerTitle) # 0
    THEN Flags(FALSE, FALSE,
               [rule |-> "IP/aftermarket auto",
                detail |-> trim(IP_AUTOGRAPH_INDICATORS[
                               FirstIncluded(IP_AUTOGRAPH_INDICATORS, lowerTitle)])])
    ELSE c

CheckSerial_KeepsBase(title, lowerTitle, c) ==
    IF c.isBaseAuto /\ SERIAL_PATTERN(title)
    THEN Flags(TRUE,
               includes(lowerTitle, <<"/","4","9","9">>) /\ includes(lowerTitle, <<"r","e","f","r","a","c","t","o","r">>),
               [rule |-> "Numbered parallel", detail |-> <<>>])
    ELSE c

CheckSerial(title, lowerTitle, c) ==
    IF c.isBaseAuto /\ SERIAL_PATTERN(title)
    THEN Flags(FALSE,
               (includes(lowerTitle, <<"/","4","9","9">>) /\ includes(lowerTitle, <<"r","e","f","r","a","c","t","o","r">>))
                   \/ c.isRefractor,
               [rule |-> "Numbered parallel", detail |-> <<>>])
    ELSE c

CheckColor(lowerTitle, c) ==
    IF c.isBaseAuto /\ FirstIncluded(PARALLEL_COLORS, lowerTitle) # 0
    THEN Flags(FALSE,
               (PARALLEL_COLORS[FirstIncluded(PARALLEL_COLORS, lowerTitle)] = <<"r","e","f","r","a","c","t","o","r">>
                    /\ includes(lowerTitle, <<"/","4","9","9">>))
                   \/ c.isRefractor,
               [rule |-> "Parallel",
                detail |-> PARALLEL_COLORS[FirstIncluded(PARALLEL_COLORS, lowerTitle)]])
    ELSE c

\* the locals at the return of categorizeListingSale
CategoryFlags_LotFirst(title, lowerTitle) ==
    IF FirstIncluded(LOT_INDICATORS, lowerTitle) # 0
    THEN CheckLot(lowerTitle, InitialFlags)
    ELSE CheckColor(lowerTitle,
          CheckSerial(title, lowerTitle,
           CheckIP(lowerTitle,
            CheckProduct(lowerTitle,
             CheckLotQuantity(title,
              CheckGraded(lowerTitle, InitialFlags))))))

CategoryFlags(title, lowerTitle) ==
    CheckColor(lowerTitle,
     CheckSerial(title, lowerTitle,
      CheckIP(lowerTitle,
       CheckProduct(lowerTitle,
        CheckLotQuantity(title,
         CheckLot(lowerTitle,
          CheckGraded(lowerTitle, InitialFlags)))))))

\* { ...sale, isBaseAuto, isRefractor, exclusionReason }
Classified(sale, c) ==
    [title |-> sale.title, ebayUrl |-> sale.ebayUrl, ebayItemId |-> sale.ebayItemId,
     salePrice |-> sale.salePrice, saleDate |-> sale.saleDate,
     releaseYear |-> sale.releaseYear,
     isBaseAuto |-> c.isBaseAuto, isRefractor |-> c.isRefractor,
     exclusionReason |-> c.exclusionReason]

categorizeListingSale(sale) ==
    Classified(sale, CategoryFlags(sale.title, toLowerCase(sale.title)))

determineFirstBowmanYear_AllYears(sales) ==
    IF \A k \in 1..Len(sales) : sales[k].releaseYear = NoYear THEN NoYear
    ELSE SetMin({sales[k].releaseYear : k \in {i \in 1..Len(sales) :
                                                  sales[i].releaseYear # NoYear}})

\* determineFirstBowmanYear: the earliest year among the base autos that have
\* one, else among the refractors that have one, else null
determineFirstBowmanYear(sales) ==
    LET baseYears == {sales[i].releaseYear : i \in {k \in 1..Len(sales) :
                          sales[k].releaseYear # NoYear /\ sales[k].isBaseAuto}}
        refractorYears == {sales[i].releaseYear : i \in {k \in 1..Len(sales) :
                          sales[k].releaseYear # NoYear /\ sales[k].isRefractor}}
        yearCounts == IF baseYears = {} THEN refractorYears ELSE baseYears
    IN  IF yearCounts = {} THEN NoYear ELSE SetMin(yearCounts)

(***************************************************************************)
(* The source response and parseHtmlResponse                               *)
(***************************************************************************)
\* NaN, the value of parseFloat on a text that starts with no number
NaN == -1

\* the day new Date() gives for a row without a parsable date
NowDay == 9

\* parseFloat, in cents: leading white space, digits, an optional fraction
parseFloat(text) ==
    LET n == Len(text)
        start == IF \E i \in 1..n : ~IsSpace(text[i])
                 THEN SetMin({i \in 1..n : ~IsSpace(text[i])}) ELSE n + 1
        intEnd == IF DigitRun(text, start, start)
                  THEN CHOOSE j \in start..n : DigitRun(text, start, j)
                                               /\ ~DigitRun(text, start, j + 1)
                  ELSE start - 1
        IntVal[j \in (start - 1)..n] ==
            IF j < start THEN 0 ELSE 10 * IntVal[j - 1] + DigitVal(text[j])
        hasFraction == At(text, intEnd + 1) = "."
        tenths == IF hasFraction /\ DigitRun(text, intEnd + 2, intEnd + 2)
                  THEN DigitVal(text[intEnd + 2]) ELSE 0
        hundredths == IF hasFraction /\ DigitRun(text, intEnd + 2, intEnd + 3)
                      THEN DigitVal(text[intEnd + 3]) ELSE 0
    IN  IF intEnd < start THEN NaN
        ELSE 100 * IntVal[intEnd] + 10 * tenths + hundredths

\* One <tr id="dRow"> of the response, as the captures of the patterns of
\* parseHtmlResponse: <<>> where a pattern does not match. href is the anchor's
\* URL after https://www.ebay.com/itm/; date is the day of the Date: cell,
\* 0 when it is missing or no date.
Row(price, check, currency, href, title, date) ==
    [price |-> price, check |-> check, currency |-> currency,
     href |-> href, title |-> title, date |-> date]

RawRows == <<
    Row(<<"4","0">>,  <<"1">>, <<"U","S","D">>, <<"1","1","?","a","=","1">>, <<"2","0","2","3"," ","M","a","x"," ","R","o","e"," ","C","h","r","o","m","e"," ","A","u","t","o">>, 3),
    Row(<<"4","5">>,  <<"1">>, <<"U","S","D">>, <<"1","1","?","b","=","2">>, <<"2","0","2","3"," ","M","a","x"," ","R","o","e"," ","C","h","r","o","m","e"," ","A","u","t","o">>, 3),
    Row(<<"5","0">>,  <<"3">>, <<"U","S","D">>, <<"1","2">>,     <<"2","0","2","2"," ","M","a","x"," ","R","o","e"," ","C","h","r","o","m","e"," ","A","u","t","o"," ">>, 5),
    Row(<<"6","0">>,  <<"4">>, <<"U","S","D">>, <<"1">>,      <<"2","0","2","3"," ","M","a","x"," ","R","o","e"," ","A","u","t","o"," ","R","e","f","r","a","c","t","o","r"," ","/","4","9","9">>, 4),
    Row(<<"5","0">>,  <<"5">>, <<"U","S","D">>, <<"1","3">>,     <<"2","0","2","4"," ","M","a","x"," ","R","o","e"," ","C","h","r","o","m","e"," ","A","u","t","o"," ","P","S","A"," ","1","0">>, 6),
    Row(<<"7","0">>,  <<"7">>, <<"U","S","D">>, <<"1","5">>,     <<"2","0","2","3"," ","M","a","x"," ","R","o","e"," ","I","P"," ","A","u","t","o"," ","R","e","f","r","a","c","t","o","r"," ","/","4","9","9">>, 2),
    Row(<<"2","0">>,  <<"8">>, <<"U","S","D">>, <<"1","6">>,     <<"2","0","2","1"," ","T","y"," ","C","o","b","b"," ","C","h","r","o","m","e"," ","A","u","t","o">>, 1),
    Row(<<"N","/","A">>, <<"9">>, <<"U","S","D">>, <<"1","7">>,     <<"2","0","2","3"," ","M","a","x"," ","R","o","e"," ","C","h","r","o","m","e"," ","A","u","t","o">>, 7),
    Row(<<"5","5">>,  <<"1","0">>, <<"E","U","R">>, <<"1","8">>,    <<"2","0","2","3"," ","M","a","x"," ","R","o","e"," ","C","h","r","o","m","e"," ","A","u","t","o">>, 8),
    Row(<<"3","5",".","5">>, <<"1","1">>, <<"U","S","D">>, <<"1","9","#","x">>, <<"M","a","x"," ","R","o","e"," ","C","h","r","o","m","e"," ","A","u","t","o">>, 0) >>

\* the body of the while loop of parseHtmlResponse for one row: the sale it
\* pushes, as a sequence of 0 or 1 sales
ParseRow(row) ==
    IF row.price = <<>> \/ row.check = <<>> \/ row.currency = <<>> THEN <<>>
    ELSE IF row.currency # <<"U","S","D">> THEN <<>>
    ELSE IF row.href = <<>> THEN <<>>
    ELSE << [title |-> trim(row.title),
             ebayUrl |-> normalizeEbayUrl(row.href),
             ebayItemId |-> row.check,
             salePrice |-> parseFloat(row.price),
             saleDate |-> IF row.date # 0 THEN row.date ELSE NowDay,
             releaseYear |-> extractYear(trim(row.title))] >>

parsedRow == [k \in 1..Len(RawRows) |-> ParseRow(RawRows[k])]

RECURSIVE Flatten(_)
Flatten(seqs) == IF seqs = <<>> THEN <<>> ELSE Head(seqs) \o Flatten(Tail(seqs))

\* parseHtmlResponse of a response holding the rows html[1], html[2], ... of
\* RawRows: the sales of the rows, the first sale of every eBay item id kept
parseHtmlResponse(html) ==
    LET sales == Flatten([k \in 1..Len(html) |-> parsedRow[html[k]]])
        keep == {i \in 1..Len(sales) :
                    \A j \in 1..(i - 1) : sales[j].ebayItemId # sales[i].ebayItemId}
        Dedup[i \in 0..Len(sales)] ==
            IF i = 0 THEN <<>>
            ELSE IF i \in keep THEN Append(Dedup[i - 1], sales[i]) ELSE Dedup[i - 1]
    IN  Dedup[Len(sales)]

(***************************************************************************)
(* The table individual_sales                                              *)
(***************************************************************************)
\* SQLite's LIKE: % is any text, _ any one character, letters match in either case
RECURSIVE Like(_, _)
Like(text, pattern) ==
    IF pattern = <<>> THEN text = <<>>
    ELSE IF Head(pattern) = "%"
         THEN \E k \in 0..Len(text) : Like(SubSeq(text, k + 1, Len(text)), Tail(pattern))
         ELSE /\ text # <<>>
              /\ Head(pattern) = "_" \/ LowerChar(Head(pattern)) = LowerChar(Head(text))
              /\ Like(Tail(text), Tail(pattern))

\* saleExists: WHERE ebay_url = ? OR ebay_url LIKE ?  (normalizedUrl, normalizedUrl + '%')
saleExists(rows, ebayUrl) ==
    LET normalizedUrl == normalizeEbayUrl(ebayUrl)
    IN  \E r \in rows : r.ebay_url = normalizedUrl
                        \/ Like(r.ebay_url, Append(normalizedUrl, "%"))

PlayerNames == {<<"M","a","x"," ","R","o","e">>, <<"A","l"," ","R","o","e">>}

\* the players of the calls that are given listings by their titles
NamePlayers == {<<"B","o"," ","U","n","i","v","e","r","s","i","t","y">>, <<"M","a","x"," ","R","o","e">>}

\* playerName.toLowerCase().trim() of every player, computed once
normalizedName == [p \in PlayerNames \cup NamePlayers |-> trim(toLowerCase(p))]

\* uuidv4(), an id no row of the table has: rows of different URLs differ
\* anyway, so the id of a new row counts the rows already stored for its URL
NewId(rows, ebayUrl) == Cardinality({r \in rows : r.ebay_url = ebayUrl})

\* the row that insertSale binds to its INSERT (sale_type and fetched_at,
\* which nothing reads back, are left out)
SaleRow(id, playerName, sale, cardType) ==
    [id |-> id,
     player_name |-> playerName,
     normalized_player_name |-> normalizedName[playerName],
     ebay_url |-> normalizeEbayUrl(sale.ebayUrl),
     ebay_item_id |-> sale.ebayItemId,
     title |-> sale.title,
     sale_price |-> sale.salePrice,
     sale_date |-> sale.saleDate,
     release_year |-> sale.releaseYear,
     card_type |-> cardType]

\* the constraints of the table: ebay_url TEXT NOT NULL UNIQUE and
\* sale_price REAL NOT NULL (a NaN is bound as NULL)
ConstraintFailed_NotUnique(rows, row) == row.sale_price = NaN

ConstraintFailed(rows, row) ==
    \/ row.sale_price = NaN
    \/ \E r \in rows : r.ebay_url = row.ebay_url

insertSale_Replacing(rows, playerName, sale, cardType) ==
    LET row == SaleRow(NewId(rows, normalizeEbayUrl(sale.ebayUrl)), playerName, sale, cardType)
    IN  IF row.sale_price = NaN
        THEN [rows |-> rows, outcome |-> "threw"]
        ELSE IF saleExists(rows, row.ebay_url)
        THEN [rows |-> {r \in rows : ~Like(r.ebay_url, row.ebay_url)} \cup {row},
              outcome |-> "duplicate"]
        ELSE [rows |-> rows \cup {row}, outcome |-> "inserted"]

\* insertSale on the table rows: the table after it and how it ended:
\* "inserted" (returned true), "duplicate" (returned false) or "threw"
insertSale(rows, playerName, sale, cardType) ==
    LET row == SaleRow(NewId(rows, normalizeEbayUrl(sale.ebayUrl)), playerName, sale, cardType)
    IN  IF saleExists(rows, row.ebay_url)
        THEN [rows |-> rows, outcome |-> "duplicate"]
        ELSE IF ConstraintFailed(rows, row)
        THEN [rows |-> rows, outcome |-> "threw"]
        ELSE [rows |-> rows \cup {row}, outcome |-> "inserted"]

\* Step 5 of scrapeAndStorePlayer, run without interruption: the loop over
\* salesToStore from its element i on; outcomes are those of the calls of
\* insertSale made so far
RECURSIVE StoreSales(_, _, _, _, _, _)
StoreSales(rows, playerName, salesToStore, cardType, i, outcomes) ==
    IF i > Len(salesToStore) \/ (i > 1 /\ outcomes[i - 1] = "threw")
    THEN [rows |-> rows, outcomes |-> outcomes]
    ELSE LET r == insertSale(rows, playerName, salesToStore[i], cardType)
         IN  StoreSales(r.rows, playerName, salesToStore, cardType, i + 1,
                        Append(outcomes, r.outcome))

Count(outcomes, what) == Cardinality({i \in 1..Len(outcomes) : outcomes[i] = what})

\* getPlayerSalesCount
getPlayerSalesCount(rows, playerName, releaseYear) ==
    Cardinality({r \in rows :
        /\ r.normalized_player_name = normalizedName[playerName]
        /\ (releaseYear # NoYear => r.release_year = releaseYear)})

\* the limit of step 6: the 5 most recent sales
RecentLimit == 5

\* getPlayerSalesFromDb(playerName, releaseYear, limit): the rows of the
\* player (and of the year, when it is given) ORDER BY sale_date DESC LIMIT
\* limit. sale_date is the ISO text of the date, which sorts as the date does.
\* The order of rows of one sale_date is not specified: every order the
\* query can give is in the set.
RECURSIVE OrderBySaleDateDesc(_, _)
OrderBySaleDateDesc(rows, limit) ==
    IF rows = {} \/ limit = 0 THEN {<<>>}
    ELSE UNION {{<<r>> \o rest : rest \in OrderBySaleDateDesc(rows \ {r}, limit - 1)} :
                   r \in {x \in rows : \A y \in rows : y.sale_date <= x.sale_date}}

getPlayerSalesFromDb_NoLimit(rows, playerName, releaseYear, limit) ==
    OrderBySaleDateDesc({r \in rows :
                            /\ r.normalized_player_name = trim(toLowerCase(playerName))
                            /\ (releaseYear # NoYear => r.release_year = releaseYear)},
                        Cardinality(rows))

getPlayerSalesFromDb(rows, playerName, releaseYear, limit) ==
    OrderBySaleDateDesc({r \in rows :
                            /\ r.normalized_player_name = trim(toLowerCase(playerName))
                            /\ (releaseYear # NoYear => r.release_year = releaseYear)},
                        limit)

\* prices.sort((a, b) => a - b)
RECURSIVE SortAscending(_)
SortAscending(prices) ==
    IF prices = <<>> THEN <<>>
    ELSE LET least == SetMin(Range(prices))
             at == SetMin({i \in 1..Len(prices) : prices[i] = least})
         IN  <<least>> \o SortAscending(SubSeq(prices, 1, at - 1)
                                            \o SubSeq(prices, at + 1, Len(prices)))

RECURSIVE Sum(_)
Sum(prices) == IF prices = <<>> THEN 0 ELSE Head(prices) + Sum(Tail(prices))

\* Math.round((total / count) * 100) / 100 on prices in cents: the quotient
\* rounded to the nearest cent, a half cent upwards. (The prices of the rows
\* are multiples of a quarter dollar, on which the arithmetic of the code in
\* doubles is exact.)
MathRound(total, count) == (2 * total + count) \div (2 * count)

\* null of averagePrice, medianPrice, lastSalePrice and of lastSaleDate
NoPrice == -2

NoDate == 0

\* Step 6 on the rows recentSales that getPlayerSalesFromDb returned
MarketStats(recentSales) ==
    LET prices == SortAscending([i \in 1..Len(recentSales) |-> recentSales[i].sale_price])
        mid == Len(prices) \div 2
    IN  IF Len(recentSales) > 0
        THEN [averagePrice |-> MathRound(Sum(prices), Len(prices)),
              medianPrice |-> IF Len(prices) % 2 # 0 THEN prices[mid + 1]
                              ELSE MathRound(prices[mid] + prices[mid + 1], 2),
              lastSalePrice |-> recentSales[1].sale_price,
              lastSaleDate |-> recentSales[1].sale_date,
              sampleSize |-> Len(recentSales)]
        ELSE [averagePrice |-> NoPrice, medianPrice |-> NoPrice, lastSalePrice |-> NoPrice,
              lastSaleDate |-> NoDate, sampleSize |-> 0]

(***************************************************************************)
(* scrapeAndStorePlayer                                                    *)
(***************************************************************************)
TargetYears == {NoYear, 2022, 2023}

\* the longest response, in rows
MaxListings == 2

\* the responses of the source: up to MaxListings different rows of RawRows
Responses ==
    {html \in UNION {[1..n -> 1..Len(RawRows)] : n \in 0..MaxListings} :
        \A i, j \in 1..Len(html) : i # j => html[i] # html[j]}

AllSales == UNION {Range(parsedRow[k]) : k \in 1..Len(RawRows)}

\* the titles: a base title followed by some of these fragments, in this order
BaseTitle == <<"2","0","2","3"," ","M","a","x"," ","R","o","e"," ","C","h","r","o","m","e"," ","A","u","t","o">>

TitleFragments == <<
    <<" ","P","S","A"," ","1","0">>, <<" ","L","o","t">>, <<" ","(","x","2",")">>, <<" ","P","a","n","i","n","i">>, <<" ","I","n"," ","P","e","r","s","o","n">>,
    <<" ","/","4","9","9">>, <<" ","R","e","f","r","a","c","t","o","r">>, <<" ","B","l","u","e">>, <<" ","/","1","5","0">> >>

\* the most fragments in a title
MaxFragments == 3

TitleOf(chosen) ==
    BaseTitle \o Flatten([k \in 1..Len(TitleFragments) |->
                             IF k \in chosen THEN TitleFragments[k] ELSE <<>>])

Titles == {TitleOf(chosen) : chosen \in {c \in SUBSET (1..Len(TitleFragments)) :
                                            Cardinality(c) <= MaxFragments}}

\* the sale parseHtmlResponse makes of a row with this title
ListingOf(title) == ParseRow(Row(<<"1","0">>, <<"2","0">>, <<"U","S","D">>, <<"2","0">>, title, 1))[1]

\* the titles of the listings given to the players of NamePlayers
NameTitles == <<
    <<"B","o","w","m","a","n"," ","U","n","i","v","e","r","s","i","t","y"," ","T","e","a","m"," ","S","e","t">>, <<"2","0","2","3"," ","B","o"," ","U","n","i","v","e","r","s","i","t","y"," ","C","h","r","o","m","e"," ","A","u","t","o">>,
    <<"2","0","2","3"," ","M","A","X"," ","R","O","E"," ","C","h","r","o","m","e"," ","A","u","t","o">>, <<"2","0","2","3"," ","M","a","x"," ","F","r","y"," ","C","h","r","o","m","e"," ","A","u","t","o">>,
    <<"2","0","2","1"," ","T","y"," ","C","o","b","b"," ","C","h","r","o","m","e"," ","A","u","t","o">>, <<"M","a","x"," ","R","o","e"," ","C","h","r","o","m","e"," ","A","u","t","o">> >>

\* the sale parseHtmlResponse makes of the row k of a response, a row with
\* the title NameTitles[t], item id and URL 3k
NameListing(t, k) ==
    ParseRow(Row(<<"1","0">>, <<"3", DIGITS[k + 1]>>, <<"U","S","D">>, <<"3", DIGITS[k + 1]>>,
                 NameTitles[t], k))[1]

\* the titles of the listings of a source that the cleanup route sweeps
SweepTitles == <<
    <<"2","0","2","3"," ","M","a","x"," ","R","o","e"," ","C","h","r","o","m","e"," ","A","u","t","o">>, <<"2","0","2","3"," ","M","a","x"," ","R","o","e"," ","C","h","r","o","m","e"," ","A","u","t","o"," ","O","B","O">>,
    <<"2","0","2","3"," ","M","a","x"," ","R","o","e"," ","C","h","r","o","m","e"," ","A","u","t","o"," ","I","P">>, <<"2","0","2","3"," ","M","a","x"," ","R","o","e"," ","C","h","r","o","m","e"," ","A","u","t","o"," ","2"," ","c","a","r","d","s">>,
    <<"2","0","2","3"," ","M","a","x"," ","R","o","e"," ","C","h","r","o","m","e"," ","A","u","t","o"," ","P","S","A"," ","1","0">>, <<"2","0","2","3"," ","M","a","x"," ","R","o","e"," ","A","u","t","o"," ","R","e","f","r","a","c","t","o","r"," ","/","4","9","9">>,
    <<"2","0","2","3"," ","M","a","x"," ","R","o","e"," ","C","h","r","o","m","e"," ","A","u","t","o"," ","B","e","c","k","e","t","t">> >>

\* the sale parseHtmlResponse makes of the row k of a response, a row with
\* the title SweepTitles[t], item id and URL 5t
SweepListing(t, k) ==
    ParseRow(Row(<<"1","0">>, <<"5", DIGITS[t + 1]>>, <<"U","S","D">>, <<"5", DIGITS[t + 1]>>,
                 SweepTitles[t], k))[1]

AllTitles == {s.title : s \in AllSales} \cup Titles \cup Range(NameTitles)
                 \cup Range(SweepTitles)

\* the classification of every sale and the name test of every title, computed once
categorized == [s \in AllSales |-> categorizeListingSale(s)]

nameMatched == [pt \in (PlayerNames \cup NamePlayers) \X AllTitles |->
                   titleContainsPlayerName(pt[2], pt[1])]

SelectSalesToStore_OtherYears(baseAutos, refractors, firstYear) ==
    LET ofYear(s) == firstYear = NoYear \/ s.releaseYear = firstYear
    IN  IF Len(SelectSeq(baseAutos, ofYear)) > 0
        THEN [salesToStore |-> SelectSeq(baseAutos, ofYear), cardType |-> "base"]
        ELSE IF Len(SelectSeq(refractors, ofYear)) > 0
        THEN [salesToStore |-> SelectSeq(refractors, ofYear), cardType |-> "refractor"]
        ELSE IF Len(baseAutos) > 0
        THEN [salesToStore |-> baseAutos, cardType |-> "base"]
        ELSE [salesToStore |-> refractors, cardType |-> "refractor"]

SelectSalesToStore_AnyYear(baseAutos, refractors, firstYear) ==
    IF Len(baseAutos) > 0 THEN [salesToStore |-> baseAutos, cardType |-> "base"]
    ELSE IF Len(refractors) > 0 THEN [salesToStore |-> refractors, cardType |-> "refractor"]
    ELSE [salesToStore |-> <<>>, cardType |-> "base"]

\* Step 4: the sales to store and their card type
SelectSalesToStore(baseAutos, refractors, firstYear) ==
    LET firstYearBaseAutos == SelectSeq(baseAutos, LAMBDA s : s.releaseYear = firstYear)
        firstYearRefractors == SelectSeq(refractors, LAMBDA s : s.releaseYear = firstYear)
    IN  IF firstYear # NoYear
        THEN IF Len(firstYearBaseAutos) > 0
             THEN [salesToStore |-> firstYearBaseAutos, cardType |-> "base"]
             ELSE IF Len(firstYearRefractors) > 0
             THEN [salesToStore |-> firstYearRefractors, cardType |-> "refractor"]
             ELSE [salesToStore |-> <<>>, cardType |-> "base"]
        ELSE IF Len(baseAutos) > 0
             THEN [salesToStore |-> baseAutos, cardType |-> "base"]
             ELSE IF Len(refractors) > 0
             THEN [salesToStore |-> refractors, cardType |-> "refractor"]
             ELSE [salesToStore |-> <<>>, cardType |-> "base"]

\* Steps 3 and 4 on the filtered lists: what the rest of the call reads
Plan(total, baseAutos, refractors, firstYear) ==
    [total |-> total, baseAutos |-> Len(baseAutos), refractors |-> Len(refractors),
     firstYear |-> firstYear,
     selection |-> SelectSalesToStore(baseAutos, refractors, firstYear)]

\* Step 3: targetYear || determineFirstBowmanYear(categorizedSales)
FirstYear(targetYear, categorizedSales) ==
    IF targetYear # NoYear THEN targetYear ELSE determineFirstBowmanYear(categorizedSales)

PlanNameMatched(targetYear, categorizedSales, nameMatchedSales) ==
    Plan(Len(categorizedSales),
         SelectSeq(nameMatchedSales, LAMBDA s : s.isBaseAuto),
         SelectSeq(nameMatchedSales, LAMBDA s : s.isRefractor),
         FirstYear(targetYear, categorizedSales))

PlanCategorized(playerName, targetYear, categorizedSales) ==
    PlanNameMatched(targetYear, categorizedSales,
        SelectSeq(categorizedSales, LAMBDA s : nameMatched[<<playerName, s.title>>]))

\* Steps 2 to 4: from the parsed sales to the sales to store
PlanRun(playerName, targetYear, rawSales) ==
    PlanCategorized(playerName, targetYear,
        [i \in 1..Len(rawSales) |-> categorized[rawSales[i]]])

\* the plan of every call on every response, computed once
plan == [c \in PlayerNames \X TargetYears \X Responses |->
            PlanRun(c[1], c[2], parseHtmlResponse(c[3]))]

\* a ScrapeResult without the names and the timing, its market statistics null
ScrapeResult(success, code, total, base, refr, year, inserted, duplicates, salesTotal, cardType) ==
    [success |-> success, error |-> code,
     totalResultsFromApi |-> total, baseAutosFiltered |-> base, refractorsFiltered |-> refr,
     inferredFirstBowmanYear |-> year,
     salesInserted |-> inserted, salesDuplicate |-> duplicates, salesTotal |-> salesTotal,
     cardType |-> cardType,
     averagePrice |-> NoPrice, medianPrice |-> NoPrice, lastSalePrice |-> NoPrice,
     lastSaleDate |-> NoDate, sampleSize |-> 0]

NoError == "undefined"

ScrapeError_Propagated == [thrown |-> "Error"]

\* the result of the catch block
ScrapeError == ScrapeResult(FALSE, "SCRAPE_ERROR", 0, 0, 0, NoYear, 0, 0, 0, "null")

\* What a call has done when it returns: the table, its result, the sales it
\* selected for storage and how insertSale ended on each
Outcome(rows, result, selected, outcomes) ==
    [rows |-> rows, result |-> result, selected |-> selected, outcomes |-> outcomes]

AfterStore_AllInserted(playerName, pl, stored) ==
    IF Count(stored.outcomes, "threw") > 0
    THEN Outcome(stored.rows, ScrapeError, pl.selection.salesToStore, stored.outcomes)
    ELSE Outcome(stored.rows,
                 ScrapeResult(TRUE, NoError, pl.total, pl.baseAutos, pl.refractors,
                              pl.firstYear,
                              Len(stored.outcomes), 0,
                              getPlayerSalesCount(stored.rows, playerName, pl.firstYear),
                              pl.selection.cardType),
                 pl.selection.salesToStore, stored.outcomes)

\* After the loop of step 5: an insertSale that threw sends the call to its
\* catch block, otherwise the call returns its counts
AfterStore(playerName, pl, stored) ==
    IF Count(stored.outcomes, "threw") > 0
    THEN Outcome(stored.rows, ScrapeError, pl.selection.salesToStore, stored.outcomes)
    ELSE Outcome(stored.rows,
                 ScrapeResult(TRUE, NoError, pl.total, pl.baseAutos, pl.refractors,
                              pl.firstYear,
                              Count(stored.outcomes, "inserted"),
                              Count(stored.outcomes, "duplicate"),
                              getPlayerSalesCount(stored.rows, playerName, pl.firstYear),
                              pl.selection.cardType),
                 pl.selection.salesToStore, stored.outcomes)

AfterFetch_StoreThenCheck(rows, playerName, targetYear, pl) ==
    IF pl.total = 0
    THEN Outcome(rows, ScrapeResult(FALSE, "NO_RESULTS", 0, 0, 0, targetYear, 0, 0, 0, "null"),
                 <<>>, <<>>)
    ELSE IF pl.baseAutos = 0
    THEN Outcome(StoreSales(rows, playerName, pl.selection.salesToStore,
                            pl.selection.cardType, 1, <<>>).rows,
                 ScrapeResult(FALSE, "NO_VALID_SALES", pl.total, pl.baseAutos,
                              pl.refractors, pl.firstYear, 0, 0, 0, "null"),
                 <<>>, <<>>)
    ELSE AfterStore(playerName, pl,
                    StoreSales(rows, playerName, pl.selection.salesToStore,
                               pl.selection.cardType, 1, <<>>))

\* From the parsed response on: the two early returns, else step 5
AfterFetch(rows, playerName, targetYear, pl) ==
    IF pl.total = 0
    THEN Outcome(rows, ScrapeResult(FALSE, "NO_RESULTS", 0, 0, 0, targetYear, 0, 0, 0, "null"),
                 <<>>, <<>>)
    ELSE IF Len(pl.selection.salesToStore) = 0
    THEN Outcome(rows, ScrapeResult(FALSE, "NO_VALID_SALES", pl.total, pl.baseAutos,
                                    pl.refractors, pl.firstYear, 0, 0, 0, "null"),
                 <<>>, <<>>)
    ELSE AfterStore(playerName, pl,
                    StoreSales(rows, playerName, pl.selection.salesToStore,
                               pl.selection.cardType, 1, <<>>))

\* Step 6 of a call that has stored its sales: what getPlayerSalesFromDb can
\* return on the table run.rows; a call that returned early does not get there
RecentSalesOf(run, playerName) ==
    IF run.result.success
    THEN getPlayerSalesFromDb(run.rows, normalizedName[playerName],
                              run.result.inferredFirstBowmanYear, RecentLimit)
    ELSE {<<>>}

\* the result with the market statistics of recentSales
WithMarketStats(result, stats) ==
    [result EXCEPT !.averagePrice = stats.averagePrice, !.medianPrice = stats.medianPrice,
                   !.lastSalePrice = stats.lastSalePrice, !.lastSaleDate = stats.lastSaleDate,
                   !.sampleSize = stats.sampleSize]

\* the run with step 6 done on recentSales
Summarized(run, recentSales) ==
    IF run.result.success
    THEN [run EXCEPT !.result = WithMarketStats(run.result, MarketStats(recentSales))]
    ELSE run

RunToCompletion_ErrorAsNoResults(rows, playerName, targetYear, fetchOk, html) ==
    IF ~fetchOk
    THEN Outcome(rows, ScrapeResult(FALSE, "NO_RESULTS", 0, 0, 0, targetYear, 0, 0, 0, "null"),
                 <<>>, <<>>)
    ELSE AfterFetch(rows, playerName, targetYear, plan[<<playerName, targetYear, html>>])

\* What a call of scrapeAndStorePlayer that nothing interrupts does from the
\* moment its fetch is settled. fetchOk is false when query130PointCards threw.
RunToCompletion(rows, playerName, targetYear, fetchOk, html) ==
    IF ~fetchOk THEN Outcome(rows, ScrapeError, <<>>, <<>>)
    ELSE AfterFetch(rows, playerName, targetYear, plan[<<playerName, targetYear, html>>])

(***************************************************************************)
(* The standalone cron script (src/unnamed/part_010)                       *)
(***************************************************************************)
Script_PARALLEL_COLORS == PARALLEL_COLORS

Script_GRADED_INDICATORS == <<
    <<"p","s","a">>, <<"b","g","s">>, <<"s","g","c">>, <<"c","g","c">>, <<"h","g","a">>, <<"c","s","g">>, <<"g","e","m"," ","m","i","n","t">>, <<"m","i","n","t"," ","9">>,
    <<"p","r","i","s","t","i","n","e">> >>

Script_LOT_INDICATORS == <<
    <<"l","o","t">>, <<"b","u","n","d","l","e">>, <<"s","e","t"," ","o","f">>, <<"(","2",")">>, <<"(","3",")">>, <<"(","4",")">>, <<"(","5",")">>,
    <<"&"," ">>, <<" ","a","n","d"," ">>, <<" ","+"," ">> >>

Script_EXCLUDED_PRODUCTS == <<
    <<"t","o","p","p","s"," ","c","h","r","o","m","e">>, <<"p","a","n","i","n","i">>, <<"d","o","n","r","u","s","s">>, <<"p","r","i","z","m">>, <<"l","e","a","f">>, <<"f","i","n","e","s","t">>,
    <<"m","e","g","a">>, <<"b","o","w","m","a","n"," ","u">> >>

Script_IP_INDICATORS == <<
    <<" ","i","p"," ">>, <<"i","n"," ","p","e","r","s","o","n">>, <<"i","n","-","p","e","r","s","o","n">>, <<"h","a","n","d"," ","s","i","g","n","e","d">>, <<"c","o","n","v","e","n","t","i","o","n">> >>

\* isBaseAuto of the script
isBaseAuto(title) ==
    /\ FirstIncluded(Script_GRADED_INDICATORS \o Script_LOT_INDICATORS
                        \o Script_EXCLUDED_PRODUCTS \o Script_IP_INDICATORS,
                     toLowerCase(title)) = 0
    /\ FirstIncluded(Script_PARALLEL_COLORS, toLowerCase(title)) = 0
    /\ ~SERIAL_PATTERN(title)

\* titleContainsPlayer of the script: every part, also when there is none
titleContainsPlayer(title, playerName) ==
    \A part \in NameParts(toLowerCase(playerName)) : includes(toLowerCase(title), part)

\* the filter of scrapePlayer on every sale, computed once
scriptKeeps == [ps \in PlayerNames \X AllSales |->
                   titleContainsPlayer(ps[2].title, ps[1]) /\ isBaseAuto(ps[2].title)]

\* the baseAutos of scrapePlayer
ScriptBaseAutos(playerName, targetYear, rawSales) ==
    SelectSeq(rawSales, LAMBDA s :
        /\ scriptKeeps[<<playerName, s>>]
        /\ (targetYear = NoYear \/ s.releaseYear = targetYear))

\* the row scrapePlayer binds to its INSERT OR IGNORE
ScriptRow(id, playerName, sale) ==
    [id |-> id,
     player_name |-> playerName,
     normalized_player_name |-> normalizedName[playerName],
     ebay_url |-> sale.ebayUrl,
     ebay_item_id |-> sale.ebayItemId,
     title |-> sale.title,
     sale_price |-> sale.salePrice,
     sale_date |-> sale.saleDate,
     release_year |-> sale.releaseYear,
     card_type |-> "base"]

\* the loop of INSERT OR IGNORE of scrapePlayer over baseAutos from its
\* element i on; a row that fails a constraint is skipped
RECURSIVE ScriptStore(_, _, _, _, _)
ScriptStore(rows, playerName, baseAutos, i, inserted) ==
    IF i > Len(baseAutos) THEN [rows |-> rows, inserted |-> inserted]
    ELSE LET row == ScriptRow(NewId(rows, baseAutos[i].ebayUrl), playerName, baseAutos[i])
         IN  IF ConstraintFailed(rows, row)
             THEN ScriptStore(rows, playerName, baseAutos, i + 1, inserted)
             ELSE ScriptStore(rows \cup {row}, playerName, baseAutos, i + 1, inserted + 1)

\* scrapePlayer(playerName, targetYear) that nothing interrupts, from the
\* parsed response rawSales on, with baseAutos the sales its filter keeps:
\* the table it leaves, success and salesInserted
ScriptRun(rows, playerName, rawSales, baseAutos) ==
    IF Len(rawSales) = 0 \/ Len(baseAutos) = 0
    THEN [rows |-> rows, success |-> FALSE, salesInserted |-> 0]
    ELSE LET stored == ScriptStore(rows, playerName, baseAutos, 1, 0)
         IN  [rows |-> stored.rows, success |-> TRUE, salesInserted |-> stored.inserted]

(***************************************************************************)
(* State                                                                   *)
(***************************************************************************)
VARIABLES
    sales,      \* the rows of individual_sales
    call,       \* the call of scrapeAndStorePlayer in the web process
    script,     \* the run of scrapePlayer in the cron script's process
    input,      \* the argument of a function applied on its own
    output,     \* and what the function returned
    batch,      \* the batch refresh of a handler of the web process
    limiter     \* the RateLimiter of the web process and its clock

vars == <<sales, call, script, input, output, batch, limiter>>

\* No call is running. A call that has returned keeps its arguments, the
\* response it got, what it selected and wrote, and its result until the
\* caller has taken the result.
NoCall == [pc |-> "idle", playerName |-> <<>>, targetYear |-> NoYear,
           fetchOk |-> FALSE, html |-> <<>>,
           selected |-> <<>>, outcomes |-> <<>>, written |-> {},
           result |-> ScrapeError, again |-> FALSE, selectedBefore |-> 0]

NoScript == [pc |-> "idle", playerName |-> <<>>, html |-> <<>>, pending |-> <<>>,
             inserted |-> 0, ignored |-> {}]

NoInput == [kind |-> "none"]

NoOutput == [kind |-> "none"]

\* No batch is running. A batch has its handler, its list of players, the
\* index i of the loop (from 1), the counters of the handler, what the
\* handler has recorded for the players it processed, late once the time
\* spent exceeds MAX_EXECUTION_TIME_MS, and its response when it is done.
NoBatch == [pc |-> "idle", handler |-> "none", players |-> <<>>, i |-> 0,
            late |-> FALSE, refreshed |-> 0, failed |-> 0, skipped |-> 0,
            records |-> <<>>, errors |-> <<>>, response |-> "none"]

\* A RateLimiter that nothing has called: no bucket. The limiter has the
\* config it is called with, the time now of Date.now(), its buckets by key,
\* the result of its last call and, for each bucket, when it was created and
\* how many calls of check it has allowed since.
NoLimiter == [config |-> [maxTokens |-> 0, refillRate |-> 0, refillInterval |-> 1],
              now |-> 0, buckets |-> <<>>, created |-> <<>>, granted |-> <<>>,
              last |-> [op |-> "none"]]

Init ==
    /\ sales = {}
    /\ call = NoCall
    /\ script = NoScript
    /\ input = NoInput
    /\ output = NoOutput
    /\ batch = NoBatch
    /\ limiter = NoLimiter

Returned(run, playerName, targetYear, fetchOk, html, again, selectedBefore) ==
    [pc |-> "returned", playerName |-> playerName, targetYear |-> targetYear,
     fetchOk |-> fetchOk, html |-> html,
     selected |-> run.selected, outcomes |-> run.outcomes,
     written |-> run.rows \ sales,
     result |-> run.result, again |-> again, selectedBefore |-> selectedBefore]

\* One call of scrapeAndStorePlayer(playerName, targetYear) in the web process,
\* the only writer: fetch settles (fetchOk, html) and the call runs to its return.
ScrapeAndStorePlayer(playerName, targetYear, fetchOk, html) ==
    /\ call.pc = "idle"
    /\ \E run \in {RunToCompletion(sales, playerName, targetYear, fetchOk, html)} :
       \E recentSales \in RecentSalesOf(run, playerName) :
        /\ sales' = run.rows
        /\ call' = Returned(Summarized(run, recentSales), playerName, targetYear,
                            fetchOk, html, FALSE, 0)
    /\ UNCHANGED <<script, input, output, batch, limiter>>

\* The caller calls scrapeAndStorePlayer again with the arguments of the call
\* that has just returned, and the source answers as before.
ScrapeAgain ==
    /\ call.pc = "returned"
    /\ ~call.again
    /\ \E run \in {RunToCompletion(sales, call.playerName, call.targetYear,
                                   call.fetchOk, call.html)} :
       \E recentSales \in RecentSalesOf(run, call.playerName) :
        /\ sales' = run.rows
        /\ call' = Returned(Summarized(run, recentSales), call.playerName, call.targetYear,
                            call.fetchOk, call.html, TRUE, Len(call.selected))
    /\ UNCHANGED <<script, input, output, batch, limiter>>

\* The caller takes the result.
Return ==
    /\ call.pc = "returned"
    /\ call' = NoCall
    /\ UNCHANGED <<sales, script, input, output, batch, limiter>>

Next ==
    \/ \E playerName \in PlayerNames, targetYear \in TargetYears, html \in Responses :
           ScrapeAndStorePlayer(playerName, targetYear, TRUE, html)
    \/ \E playerName \in PlayerNames, targetYear \in TargetYears :
           ScrapeAndStorePlayer(playerName, targetYear, FALSE, <<>>)
    \/ ScrapeAgain
    \/ Return

Spec == Init /\ [][Next]_vars

(***************************************************************************)
(* The web process and the cron script on one database file                *)
(***************************************************************************)
\* the rows of RawRows that the responses of the two processes are made of
RaceRows == {1, 2, 3}

RaceResponses == {html \in Responses : \A k \in 1..Len(html) : html[k] \in RaceRows}

RaceYears == {NoYear}

\* where the loop of step 5 goes once outcomes holds the outcome of a sale
AfterSale(selected, outcomes) ==
    IF Len(outcomes) = Len(selected) THEN "summary" ELSE "saleExists"

\* The fetch of a call settles and the call runs up to its first statement on
\* the database: to its return if it stores nothing, else to the saleExists
\* of the first sale it selected.
WebFetch(playerName, targetYear, fetchOk, html) ==
    /\ call.pc = "idle"
    /\ \E pl \in {plan[<<playerName, targetYear, html>>]} :
        IF ~fetchOk \/ Len(pl.selection.salesToStore) = 0
        THEN call' = Returned(RunToCompletion(sales, playerName, targetYear, fetchOk, html),
                              playerName, targetYear, fetchOk, html, FALSE, 0)
        ELSE call' = [NoCall EXCEPT !.pc = "saleExists", !.playerName = playerName,
                                    !.targetYear = targetYear, !.fetchOk = fetchOk,
                                    !.html = html,
                                    !.selected = pl.selection.salesToStore]
    /\ UNCHANGED <<sales, script, input, output, batch, limiter>>

\* insertSale, its SELECT: saleExists on the next sale
WebSaleExists ==
    /\ call.pc = "saleExists"
    /\ IF saleExists(sales, normalizeEbayUrl(call.selected[Len(call.outcomes) + 1].ebayUrl))
       THEN \E outcomes \in {Append(call.outcomes, "duplicate")} :
                call' = [call EXCEPT !.outcomes = outcomes,
                                     !.pc = AfterSale(call.selected, outcomes)]
       ELSE call' = [call EXCEPT !.pc = "insert"]
    /\ UNCHANGED <<sales, script, input, output, batch, limiter>>

\* insertSale, its INSERT: stmt.run throws when a constraint fails, and the
\* call goes to its catch block
WebInsert ==
    /\ call.pc = "insert"
    /\ \E row \in {SaleRow(NewId(sales, normalizeEbayUrl(
                                          call.selected[Len(call.outcomes) + 1].ebayUrl)),
                           call.playerName, call.selected[Len(call.outcomes) + 1],
                           plan[<<call.playerName, call.targetYear, call.html>>]
                               .selection.cardType)} :
        IF ConstraintFailed(sales, row)
        THEN /\ call' = [call EXCEPT !.pc = "returned", !.result = ScrapeError,
                                     !.outcomes = Append(call.outcomes, "threw")]
             /\ UNCHANGED sales
        ELSE /\ sales' = sales \cup {row}
             /\ \E outcomes \in {Append(call.outcomes, "inserted")} :
                    call' = [call EXCEPT !.outcomes = outcomes,
                                         !.written = call.written \cup {row},
                                         !.pc = AfterSale(call.selected, outcomes)]
    /\ UNCHANGED <<script, input, output, batch, limiter>>

\* Steps 6 and 7: the call reads the table and returns its result
WebSummary ==
    /\ call.pc = "summary"
    /\ \E run \in {AfterStore(call.playerName,
                               plan[<<call.playerName, call.targetYear, call.html>>],
                               [rows |-> sales, outcomes |-> call.outcomes])} :
       \E recentSales \in RecentSalesOf(run, call.playerName) :
        call' = [call EXCEPT !.pc = "returned",
                             !.result = Summarized(run, recentSales).result]
    /\ UNCHANGED <<sales, script, input, output, batch, limiter>>

\* The fetch of scrapePlayer settles: the script filters its baseAutos
ScriptFetch(playerName, targetYear, fetchOk, html) ==
    /\ script.pc = "idle"
    /\ \E pending \in {IF fetchOk
                       THEN ScriptBaseAutos(playerName, targetYear, parseHtmlResponse(html))
                       ELSE <<>>} :
        script' = [NoScript EXCEPT !.pc = IF pending = <<>> THEN "done" ELSE "inserting",
                                   !.playerName = playerName, !.html = html,
                                   !.pending = pending]
    /\ UNCHANGED <<sales, call, input, output, batch, limiter>>

\* One INSERT OR IGNORE of scrapePlayer: a row that fails a constraint is skipped
ScriptInsert ==
    /\ script.pc = "inserting"
    /\ \E row \in {ScriptRow(NewId(sales, Head(script.pending).ebayUrl),
                             script.playerName, Head(script.pending))} :
        IF ConstraintFailed(sales, row)
        THEN /\ script' = [script EXCEPT
                    !.pending = Tail(script.pending),
                    !.ignored = script.ignored \cup {row.ebay_url},
                    !.pc = IF Len(script.pending) = 1 THEN "done" ELSE "inserting"]
             /\ UNCHANGED sales
        ELSE /\ sales' = sales \cup {row}
             /\ script' = [script EXCEPT
                    !.pending = Tail(script.pending),
                    !.inserted = script.inserted + 1,
                    !.pc = IF Len(script.pending) = 1 THEN "done" ELSE "inserting"]
    /\ UNCHANGED <<call, input, output, batch, limiter>>

\* scrapePlayer returns
ScriptReturn ==
    /\ script.pc = "done"
    /\ script' = NoScript
    /\ UNCHANGED <<sales, call, input, output, batch, limiter>>

NextRace ==
    \/ \E playerName \in PlayerNames, targetYear \in RaceYears, html \in RaceResponses :
           WebFetch(playerName, targetYear, TRUE, html)
    \/ \E playerName \in PlayerNames, targetYear \in RaceYears :
           WebFetch(playerName, targetYear, FALSE, <<>>)
    \/ WebSaleExists
    \/ WebInsert
    \/ WebSummary
    \/ Return
    \/ \E playerName \in PlayerNames, targetYear \in RaceYears, html \in RaceResponses :
           ScriptFetch(playerName, targetYear, TRUE, html)
    \/ \E playerName \in PlayerNames, targetYear \in RaceYears :
           ScriptFetch(playerName, targetYear, FALSE, <<>>)
    \/ ScriptInsert
    \/ ScriptReturn

SpecRace == Init /\ [][NextRace]_vars

\* the responses of one row
ShortResponses == {html \in RaceResponses : Len(html) <= 1}

\* The two processes on responses of one row
NextShort ==
    \/ \E playerName \in PlayerNames, targetYear \in RaceYears, html \in ShortResponses :
           WebFetch(playerName, targetYear, TRUE, html)
    \/ \E playerName \in PlayerNames, targetYear \in RaceYears :
           WebFetch(playerName, targetYear, FALSE, <<>>)
    \/ WebSaleExists
    \/ WebInsert
    \/ WebSummary
    \/ Return
    \/ \E playerName \in PlayerNames, targetYear \in RaceYears, html \in ShortResponses :
           ScriptFetch(playerName, targetYear, TRUE, html)
    \/ \E playerName \in PlayerNames, targetYear \in RaceYears :
           ScriptFetch(playerName, targetYear, FALSE, <<>>)
    \/ ScriptInsert
    \/ ScriptReturn

\* The statements of a call after its fetch has settled are synchronous: once
\* the call is resumed it runs each of them, whatever the script does.
SpecRaceFair ==
    /\ Init /\ [][NextShort]_vars
    /\ WF_vars(WebSaleExists) /\ WF_vars(WebInsert) /\ WF_vars(WebSummary)

(***************************************************************************)
(* The batch refreshes: POST of cron/refresh, of collection (part_007) and *)
(* of collection/sales, and scrapeMultiplePlayers                          *)
(***************************************************************************)
\* an element of the playerNames of a request body that is no string
JsonNull == <<"null">>

\* the most players in a batch
MaxPlayers == 2

\* the handlers whose players come from a request body, which nothing
\* validates; the players of "cron" and "multiple" are strings
BodyHandlers == {"collection", "sales"}

\* the handlers that process a player inside a try block of the loop
IsolatingHandlers == {"cron", "collection"}

\* the lists of players of a batch: up to MaxPlayers different elements
PlayerLists(elements) ==
    {l \in UNION {[1..n -> elements] : n \in 0..MaxPlayers} :
        \A i, j \in 1..Len(l) : i # j => l[i] # l[j]}

\* the handler reads its list of players and enters its loop
BatchStart(handler, players) ==
    /\ batch.pc = "idle"
    /\ batch' = [NoBatch EXCEPT !.pc = "check", !.handler = handler,
                                !.players = players, !.i = 1]
    /\ UNCHANGED <<sales, call, script, input, output, limiter>>

\* Date.now() - startTime passes MAX_EXECUTION_TIME_MS, at any moment
BudgetRunsOut ==
    /\ batch.handler = "cron"
    /\ batch.pc \in {"check", "running", "delay"}
    /\ ~batch.late
    /\ batch' = [batch EXCEPT !.late = TRUE]
    /\ UNCHANGED <<sales, call, script, input, output, limiter>>

BatchCheck_SkippedAsFailed ==
    /\ batch.pc = "check"
    /\ IF batch.i > Len(batch.players)
       THEN batch' = [batch EXCEPT !.pc = "done", !.response = "success"]
       ELSE IF batch.handler = "cron" /\ batch.late
       THEN batch' = [batch EXCEPT !.pc = "done", !.response = "success",
                                   !.failed = batch.failed
                                                  + (Len(batch.players) - batch.i + 1)]
       ELSE batch' = [batch EXCEPT !.pc = "running"]
    /\ UNCHANGED <<sales, call, script, input, output, limiter>>

\* The head of the loop: after the last player the handler builds its
\* response; the cron handler that is late counts the players left as
\* skipped and leaves the loop; else the handler starts on the player i
BatchCheck ==
    /\ batch.pc = "check"
    /\ IF batch.i > Len(batch.players)
       THEN batch' = [batch EXCEPT !.pc = "done", !.response = "success"]
       ELSE IF batch.handler = "cron" /\ batch.late
       THEN batch' = [batch EXCEPT !.pc = "done", !.response = "success",
                                   !.skipped = Len(batch.players) - batch.i + 1]
       ELSE batch' = [batch EXCEPT !.pc = "running"]
    /\ UNCHANGED <<sales, call, script, input, output, limiter>>

\* what the handler has recorded for a player
Record(player, what) == [player |-> player, what |-> what]

\* the result the cron and the collection handler store as current market
HasMarket(run) == run.result.success /\ run.result.averagePrice # NoPrice

\* playersToRefresh.indexOf(playerName), counted from 1
IndexOf(players, player) == SetMin({k \in 1..Len(players) : players[k] = player})

\* The condition under which the handler awaits the delay after the player i:
\* cron and scrapeMultiplePlayers test i < playerNames.length - 1, collection
\* tests the index of the first occurrence of the player, sales always waits
DelayAfter(handler, players, i) ==
    CASE handler = "sales" -> TRUE
      [] handler = "collection" -> IndexOf(players, players[i]) < Len(players)
      [] OTHER -> i < Len(players)

BatchRecorded_CountedBeforeUpsert(run, upsertRaises) ==
    LET isolating == batch.handler \in IsolatingHandlers
        refreshed == isolating /\ HasMarket(run)
        failed == isolating /\ (~HasMarket(run) \/ upsertRaises)
        player == batch.players[batch.i]
    IN  [batch EXCEPT
            !.pc = IF ~upsertRaises /\ DelayAfter(batch.handler, batch.players, batch.i)
                   THEN "delay" ELSE "check",
            !.i = batch.i + 1,
            !.refreshed = IF refreshed THEN batch.refreshed + 1 ELSE batch.refreshed,
            !.failed = IF failed THEN batch.failed + 1 ELSE batch.failed,
            !.errors = IF failed THEN Append(batch.errors, player) ELSE batch.errors,
            !.records = Append(batch.records,
                            Record(player,
                                IF failed \/ (~isolating /\ ~run.result.success)
                                THEN "failed" ELSE "succeeded"))]

\* The call of scrapeAndStorePlayer for the player i returned run, and the
\* handler records it: cron and collection store the market of a result that
\* has one and count the player as refreshed, and else count it as failed
\* with an entry of errors; sales and scrapeMultiplePlayers keep the result;
\* then the handler awaits the delay. When upsertCurrentMarket raises, the
\* catch block of the loop counts the player as failed with an entry of
\* errors, and the loop goes on at once.
BatchRecorded(run, upsertRaises) ==
    LET isolating == batch.handler \in IsolatingHandlers
        refreshed == isolating /\ HasMarket(run) /\ ~upsertRaises
        player == batch.players[batch.i]
    IN  [batch EXCEPT
            !.pc = IF ~upsertRaises /\ DelayAfter(batch.handler, batch.players, batch.i)
                   THEN "delay" ELSE "check",
            !.i = batch.i + 1,
            !.refreshed = IF refreshed THEN batch.refreshed + 1 ELSE batch.refreshed,
            !.failed = IF isolating /\ ~refreshed THEN batch.failed + 1 ELSE batch.failed,
            !.errors = IF isolating /\ ~refreshed THEN Append(batch.errors, player)
                       ELSE batch.errors,
            !.records = Append(batch.records,
                            Record(player,
                                IF refreshed \/ (~isolating /\ run.result.success)
                                THEN "succeeded" ELSE "failed"))]

\* setTimeout(resolve, 1500) fires: the delay between two players is over
BatchDelay ==
    /\ batch.pc = "delay"
    /\ batch' = [batch EXCEPT !.pc = "check"]
    /\ UNCHANGED <<sales, call, script, input, output, limiter>>

\* The run of the player i: the handler looks up the known year (cron and
\* collection; targetYear is what the baseline gives), awaits
\* scrapeAndStorePlayer and records the result.
BatchRunReturns(targetYear, fetchOk, html, upsertRaises) ==
    /\ batch.pc = "running"
    /\ batch.players[batch.i] # JsonNull
    /\ batch.handler \notin IsolatingHandlers => targetYear = NoYear
    /\ \E run \in {RunToCompletion(sales, batch.players[batch.i], targetYear, fetchOk, html)} :
       \E recentSales \in RecentSalesOf(run, batch.players[batch.i]) :
       \E summarized \in {Summarized(run, recentSales)} :
        /\ upsertRaises => batch.handler \in IsolatingHandlers /\ HasMarket(summarized)
        /\ sales' = run.rows
        /\ batch' = BatchRecorded(summarized, upsertRaises)
    /\ UNCHANGED <<call, script, input, output, limiter>>

\* Processing the player i raises before its run: playerName.toLowerCase()
\* on a player that is no string (in the argument of getBaselinePrice, or in
\* scrapeAndStorePlayer before its try block), or getBaselinePrice itself.
\* cron and collection catch it in the loop, count the player as failed and
\* go on; in sales and scrapeMultiplePlayers it leaves the loop, and sales
\* answers with its error response.
BatchPlayerRaises ==
    /\ batch.pc = "running"
    /\ batch.players[batch.i] = JsonNull \/ batch.handler \in IsolatingHandlers
    /\ IF batch.handler \in IsolatingHandlers
       THEN batch' = [batch EXCEPT !.pc = "check", !.i = batch.i + 1,
                                   !.failed = batch.failed + 1,
                                   !.errors = Append(batch.errors, batch.players[batch.i]),
                                   !.records = Append(batch.records,
                                                   Record(batch.players[batch.i], "failed"))]
       ELSE batch' = [batch EXCEPT !.pc = "done", !.response = "error"]
    /\ UNCHANGED <<sales, call, script, input, output, limiter>>

\* the caller takes the response
BatchReturn ==
    /\ batch.pc = "done"
    /\ batch' = NoBatch
    /\ UNCHANGED <<sales, call, script, input, output, limiter>>

NextBatch ==
    \/ \E players \in PlayerLists(PlayerNames) : BatchStart("cron", players)
    \/ \E players \in PlayerLists(PlayerNames) : BatchStart("multiple", players)
    \/ \E handler \in BodyHandlers, players \in PlayerLists(PlayerNames \cup {JsonNull}) :
           BatchStart(handler, players)
    \/ BudgetRunsOut
    \/ BatchCheck
    \/ \E targetYear \in TargetYears, html \in ShortResponses, upsertRaises \in BOOLEAN :
           BatchRunReturns(targetYear, TRUE, html, upsertRaises)
    \/ \E targetYear \in TargetYears : BatchRunReturns(targetYear, FALSE, <<>>, FALSE)
    \/ BatchPlayerRaises
    \/ BatchDelay
    \/ BatchReturn

SpecBatch == Init /\ [][NextBatch]_vars

(***************************************************************************)
(* The cleanup route (src/app/api/collection/cleanup/route.ts)             *)
(***************************************************************************)
Cleanup_GRADED_INDICATORS == <<
    <<"p","s","a">>, <<"b","g","s">>, <<"s","g","c">>, <<"c","g","c">>, <<"h","g","a">>, <<"c","s","g">>,
    <<"b","e","c","k","e","t","t">>,
    <<"g","e","m"," ","m","i","n","t">>, <<"g","e","m"," ","m","t"," ","1","0">>, <<"m","i","n","t"," ","9">>, <<"p","e","r","f","e","c","t"," ","1","0">>, <<"p","r","i","s","t","i","n","e">> >>

Cleanup_LOT_INDICATORS == LOT_INDICATORS

\* \b<digits s[i..d]>\s*cards?\b matches s[i..j]
CardsWord(s, i, d, j) ==
    /\ WordBoundary(s, i - 1)
    /\ \E w \in d..j :
        /\ \A k \in (d + 1)..w : IsSpace(s[k])
        /\ At(s, w + 1) = "c" /\ At(s, w + 2) = "a" /\ At(s, w + 3) = "r" /\ At(s, w + 4) = "d"
        /\ j = w + 4 \/ (j = w + 5 /\ At(s, j) = "s")
    /\ WordBoundary(s, j)

\* LOT_QUANTITY_PATTERNS of the cleanup route: the seven of the scraper, then
\*   8 \b[2-9]\s*cards?\b   9 \b\d{2,}\s*cards?\b
Cleanup_LotQuantityMatch(p, s, i, j) ==
    CASE p <= NumLotQuantityPatterns -> LotQuantityMatch(p, s, i, j)
      [] p = 8 -> IsDigit(At(s, i)) /\ DigitVal(At(s, i)) >= 2 /\ CardsWord(s, i, i, j)
      [] p = 9 -> \E d \in (i + 1)..j : DigitRun(s, i, d) /\ CardsWord(s, i, d, j)

Cleanup_NumLotQuantityPatterns == 9

\* pattern.test(title) for one of the patterns
Cleanup_LotQuantityTest(title) ==
    \E p \in 1..Cleanup_NumLotQuantityPatterns :
        \E i \in 1..Len(title), j \in 1..Len(title) :
            i <= j /\ Cleanup_LotQuantityMatch(p, title, i, j)

Cleanup_EXCLUDED_PRODUCTS == EXCLUDED_PRODUCTS \o << <<"c","l","a","s","s"," ","o","f">> >>

Cleanup_IP_AUTOGRAPH_INDICATORS == <<
    <<" ","i","p"," ">>, <<" ","i","p"," ","a","u","t","o">>, <<"i","n"," ","p","e","r","s","o","n">>, <<"i","n","-","p","e","r","s","o","n">>, <<"s","i","g","n","e","d"," ","i","n">>,
    <<"s","i","g","n","e","d"," ","a","t">>, <<"s","i","g","n","e","d"," ","b","y">>, <<"s","i","g","n","e","d"," ","c","a","r","d">>, <<" ","s","i","g","n","e","d"," ">>,
    <<"h","a","n","d"," ","s","i","g","n","e","d">>, <<"h","a","n","d","-","s","i","g","n","e","d">>,
    <<"a","u","t","h","e","n","t","i","c"," ","a","u","t","o">>, <<"c","o","n","v","e","n","t","i","o","n">>, <<"m","e","e","t"," ","a","n","d"," ","g","r","e","e","t">>,
    <<"a","u","t","o","g","r","a","p","h"," ","e","v","e","n","t">>, <<"s","i","g","n","i","n","g"," ","e","v","e","n","t">> >>

UNCLEAR_PRICING_INDICATORS == <<
    <<" ","o","b","o">>, <<" ","o","b","o"," ">>, <<"o","r"," ","b","e","s","t"," ","o","f","f","e","r">>, <<"b","e","s","t"," ","o","f","f","e","r"," ","a","c","c","e","p","t","e","d">> >>

\* shouldExclude: the title in lower case between two spaces goes through
\* the lists in turn
shouldExclude(title) ==
    LET lowerTitle == <<" ">> \o toLowerCase(title) \o <<" ">>
    IN  IF FirstIncluded(Cleanup_GRADED_INDICATORS, lowerTitle) # 0
        THEN [exclude |-> TRUE, reason |-> "Graded"]
        ELSE IF FirstIncluded(Cleanup_LOT_INDICATORS, lowerTitle) # 0
        THEN [exclude |-> TRUE, reason |-> "Lot"]
        ELSE IF Cleanup_LotQuantityTest(title)
        THEN [exclude |-> TRUE, reason |-> "Lot pattern"]
        ELSE IF FirstIncluded(Cleanup_EXCLUDED_PRODUCTS, lowerTitle) # 0
        THEN [exclude |-> TRUE, reason |-> "Wrong product"]
        ELSE IF FirstIncluded(Cleanup_IP_AUTOGRAPH_INDICATORS, lowerTitle) # 0
        THEN [exclude |-> TRUE, reason |-> "IP auto"]
        ELSE IF FirstIncluded(UNCLEAR_PRICING_INDICATORS, lowerTitle) # 0
        THEN [exclude |-> TRUE, reason |-> "Unclear pricing"]
        ELSE [exclude |-> FALSE, reason |-> ""]

\* the responses of the swept source: up to MaxListings different titles
SweepResponses ==
    {titles \in UNION {[1..n -> 1..Len(SweepTitles)] : n \in 0..MaxListings} :
        \A i, j \in 1..Len(titles) : i # j => titles[i] # titles[j]}

\* the source answers every query for the player with the same listings;
\* nothing is stored, no call and no sweep has run
InitSweep ==
    /\ sales = {}
    /\ call = NoCall
    /\ script = NoScript
    /\ batch = NoBatch
    /\ limiter = NoLimiter
    /\ \E titles \in SweepResponses :
           input = [kind |-> "source", playerName |-> <<"M","a","x"," ","R","o","e">>, titles |-> titles]
    /\ output = [kind |-> "none", written |-> {}, deleted |-> {}]

\* scrapeAndStorePlayer(input.playerName) on the response of the source;
\* written are the rows the call added, deleted the URLs of the rows the
\* sweeps have deleted so far
ScrapeSource ==
    /\ input.kind = "source"
    /\ \E run \in {AfterFetch(sales, input.playerName, NoYear,
                              PlanCategorized(input.playerName, NoYear,
                                  [k \in 1..Len(input.titles) |->
                                      categorizeListingSale(
                                          SweepListing(input.titles[k], k))]))} :
        /\ sales' = run.rows
        /\ output' = [output EXCEPT !.kind = "scraped", !.written = run.rows \ sales]
    /\ UNCHANGED <<call, script, input, batch, limiter>>

\* POST of the cleanup route: every row whose title shouldExclude excludes
\* is deleted
CleanupSweep ==
    /\ input.kind = "source"
    /\ \E toDelete \in {{r \in sales : shouldExclude(r.title).exclude}} :
        /\ sales' = sales \ toDelete
        /\ output' = [output EXCEPT !.kind = "swept", !.written = {},
                                    !.deleted = @ \cup {r.ebay_url : r \in toDelete}]
    /\ UNCHANGED <<call, script, input, batch, limiter>>

NextSweep ==
    \/ ScrapeSource
    \/ CleanupSweep

SpecSweep == InitSweep /\ [][NextSweep]_vars

(***************************************************************************)
(* RateLimiter (src/lib/rate-limiter.ts)                                   *)
(***************************************************************************)
\* the last moment of the clock, in minutes
MaxTime == 12

\* the configs: auth and strict of RATE_LIMIT_CONFIGS with refillInterval in
\* minutes, and one that refills two tokens every three minutes
Configs == {[maxTokens |-> 3, refillRate |-> 1, refillInterval |-> 5],
            [maxTokens |-> 5, refillRate |-> 1, refillInterval |-> 1],
            [maxTokens |-> 2, refillRate |-> 2, refillInterval |-> 3]}

\* the keys of the buckets
Keys == {"register:1"}

Min(a, b) == IF a <= b THEN a ELSE b

\* this.buckets.set(key, entry)
MapSet(map, key, value) ==
    [k \in DOMAIN map \cup {key} |-> IF k = key THEN value ELSE map[k]]

Refill_KeepsLastRefill(entry, now, config) ==
    LET refillCount == (now - entry.lastRefill) \div config.refillInterval
    IN  IF refillCount > 0
        THEN [entry EXCEPT !.tokens = Min(config.maxTokens,
                                          entry.tokens + refillCount * config.refillRate)]
        ELSE entry

\* check: refill tokens based on time passed
Refill(entry, now, config) ==
    LET refillCount == (now - entry.lastRefill) \div config.refillInterval
    IN  IF refillCount > 0
        THEN [tokens |-> Min(config.maxTokens,
                             entry.tokens + refillCount * config.refillRate),
              lastRefill |-> now]
        ELSE entry

\* check(key, config) at the time now: the entry of the key after the call
\* and the result
check(buckets, key, config, now) ==
    LET created == IF key \in DOMAIN buckets THEN buckets[key]
                   ELSE [tokens |-> config.maxTokens, lastRefill |-> now]
        timePassed == now - created.lastRefill
        entry == Refill(created, now, config)
        resetIn == IF entry.tokens > 0 THEN 0
                   ELSE config.refillInterval - (timePassed % config.refillInterval)
    IN  IF entry.tokens > 0
        THEN [entry |-> [entry EXCEPT !.tokens = entry.tokens - 1],
              result |-> [allowed |-> TRUE, remaining |-> entry.tokens - 1, resetIn |-> 0]]
        ELSE [entry |-> entry,
              result |-> [allowed |-> FALSE, remaining |-> 0, resetIn |-> resetIn]]

\* status(key, config) at the time now: the result
status(buckets, key, config, now) ==
    IF key \notin DOMAIN buckets
    THEN [allowed |-> TRUE, remaining |-> config.maxTokens, resetIn |-> 0]
    ELSE LET entry == buckets[key]
             timePassed == now - entry.lastRefill
             refillCount == timePassed \div config.refillInterval
             currentTokens == Min(config.maxTokens,
                                  entry.tokens + refillCount * config.refillRate)
         IN  [allowed |-> currentTokens > 0, remaining |-> currentTokens,
              resetIn |-> IF currentTokens > 0 THEN 0
                          ELSE config.refillInterval
                                   - (timePassed % config.refillInterval)]

\* a new RateLimiter, called with one config
InitLimiter ==
    /\ sales = {}
    /\ call = NoCall
    /\ script = NoScript
    /\ input = NoInput
    /\ output = NoOutput
    /\ batch = NoBatch
    /\ \E config \in Configs : limiter = [NoLimiter EXCEPT !.config = config]

\* Date.now() moves on
TimePasses(minutes) ==
    /\ limiter.now + minutes <= MaxTime
    /\ limiter' = [limiter EXCEPT !.now = limiter.now + minutes, !.last = [op |-> "none"]]
    /\ UNCHANGED <<sales, call, script, input, output, batch>>

\* rateLimiter.check(key, config)
Check(key) ==
    /\ \E r \in {check(limiter.buckets, key, limiter.config, limiter.now)} :
        limiter' = [limiter EXCEPT
            !.buckets = MapSet(limiter.buckets, key, r.entry),
            !.created = IF key \in DOMAIN limiter.buckets THEN limiter.created
                        ELSE MapSet(limiter.created, key, limiter.now),
            !.granted = MapSet(limiter.granted, key,
                               (IF key \in DOMAIN limiter.granted
                                THEN limiter.granted[key] ELSE 0)
                                   + (IF r.result.allowed THEN 1 ELSE 0)),
            !.last = [op |-> "check", key |-> key, result |-> r.result]]
    /\ UNCHANGED <<sales, call, script, input, output, batch>>

\* rateLimiter.status(key, config)
Status(key) ==
    /\ limiter' = [limiter EXCEPT
           !.last = [op |-> "status", key |-> key,
                     result |-> status(limiter.buckets, key, limiter.config, limiter.now)]]
    /\ UNCHANGED <<sales, call, script, input, output, batch>>

NextLimiter ==
    \/ \E minutes \in 1..MaxTime : TimePasses(minutes)
    \/ \E key \in Keys : Check(key)
    \/ \E key \in Keys : Status(key)

SpecLimiter == InitLimiter /\ [][NextLimiter]_vars

IsBaseClass(c) == c.isBaseAuto /\ ~c.isRefractor /\ c.exclusionReason = NoReason

IsFallbackClass(c) == ~c.isBaseAuto /\ c.isRefractor

IsExcludedClass(c) == ~c.isBaseAuto /\ ~c.isRefractor /\ c.exclusionReason # NoReason

(***************************************************************************)
(* Properties of the table and of scrapeAndStorePlayer                     *)
(***************************************************************************)
\* the normalized URL of the sale i that a returned call selected
SelectedUrl(i) == normalizeEbayUrl(call.selected[i].ebayUrl)

\* the table as the call found it: rows are only added, and written holds
\* the rows the call added
RowsBefore == sales \ call.written

\* a row with exactly the URL of the selected sale i was in the table when
\* insertSale was called on it
StoredExactly(i) ==
    \/ \E r \in RowsBefore : r.ebay_url = SelectedUrl(i)
    \/ \E j \in 1..(i - 1) : call.outcomes[j] = "inserted" /\ SelectedUrl(j) = SelectedUrl(i)

\* C1: no two rows of individual_sales have the same normalized URL, under
\* every interleaving of the calls of the web process and the runs of the
\* cron script, for any players and responses.
C1_NormalizedUrlUnique ==
    \A r1, r2 \in sales :
        normalizeEbayUrl(r1.ebay_url) = normalizeEbayUrl(r2.ebay_url) => r1 = r2

\* C1 witness: a listing seen with two query strings, by a call and by the
\* script for two players, is stored once
C1_SameListingTwoQueries ==
    /\ call.pc = "returned" /\ script.pc = "done"
    /\ call.playerName # script.playerName
    /\ Len(call.html) = 1 /\ Len(script.html) = 1
    /\ RawRows[call.html[1]].href = <<"1","1","?","a","=","1">>
    /\ RawRows[script.html[1]].href = <<"1","1","?","b","=","2">>
    /\ Len(call.outcomes) = 1
    /\ script.inserted + Cardinality(script.ignored) = 1
    /\ Cardinality({r \in sales : r.ebay_url = <<"1","1">>}) = 1

\* C2: when scrapeAndStorePlayer is run twice in a row for the same player,
\* known year and response, the second run reports salesInserted = 0 and
\* salesDuplicate equal to the number of listings the first run selected, and
\* it adds no row.
C2_SecondRunOnlyDuplicates ==
    (call.pc = "returned" /\ call.again /\ call.targetYear # NoYear) =>
        /\ call.result.salesInserted = 0
        /\ call.result.salesDuplicate = call.selectedBefore
        /\ call.written = {}

\* C3: insertSale returns false (duplicate) if and only if a stored row has
\* exactly the normalized URL of the listing; a listing whose URL is only a
\* proper prefix of a stored URL is inserted.
C3_DuplicateIffSameUrl ==
    call.pc = "returned" =>
        \A i \in 1..Len(call.outcomes) :
            call.outcomes[i] = "duplicate" <=> StoredExactly(i)

\* C4: when a call and the cron script persist the same normalized URL
\* concurrently, the one that comes second counts the listing as a duplicate
\* and finishes with its normal result: a call whose fetch succeeded never
\* ends with SCRAPE_ERROR and none of its insertSale calls throws.
C4_LoserCountsDuplicate ==
    (call.pc = "returned" /\ call.fetchOk) =>
        /\ call.result.error # "SCRAPE_ERROR"
        /\ \A i \in 1..Len(call.outcomes) : call.outcomes[i] \in {"inserted", "duplicate"}

\* C5: every row a call inserted comes from a listing that passed the name
\* filter for the call's player and was classified as base (card_type base)
\* or as fallback (card_type refractor), has the resolved year when one was
\* resolved, and all rows of one call have the same card_type.
C5_OnlyEligibleRowsInserted ==
    call.pc = "returned" =>
        /\ \A r \in call.written :
            /\ \E s \in AllSales :
                /\ r = SaleRow(r.id, call.playerName, s, r.card_type)
                /\ nameMatched[<<call.playerName, s.title>>]
                /\ \/ r.card_type = "base" /\ IsBaseClass(categorized[s])
                   \/ r.card_type = "refractor" /\ IsFallbackClass(categorized[s])
            /\ plan[<<call.playerName, call.targetYear, call.html>>].firstYear # NoYear =>
                   r.release_year
                       = plan[<<call.playerName, call.targetYear, call.html>>].firstYear
        /\ \A r1, r2 \in call.written : r1.card_type = r2.card_type

\* C5 witness: a call whose response held an in-person /499 refractor and a
\* /499 refractor has inserted the second as a fallback row
C5_FallbackInserted ==
    /\ call.pc = "returned"
    /\ \E r \in call.written : r.card_type = "refractor"
    /\ \E k \in 1..Len(call.html) :
           categorized[parsedRow[call.html[k]][1]].exclusionReason.rule
               = "IP/aftermarket auto"

\* C6: a run that ends with NO_RESULTS or NO_VALID_SALES leaves the table as
\* it was.
C6_EarlyReturnWritesNothing ==
    [][(call'.pc = "returned" /\ call' # call
            /\ call'.result.error \in {"NO_RESULTS", "NO_VALID_SALES"})
        => sales' = sales]_vars

\* C6 witness: a response holding only a graded listing ended a call, on a
\* table that holds rows, with NO_VALID_SALES
C6_GradedOnlyNoValidSales ==
    /\ call.pc = "returned"
    /\ call.result.error = "NO_VALID_SALES"
    /\ Len(call.html) = 1
    /\ categorized[parsedRow[call.html[1]][1]].exclusionReason.rule = "Graded card"
    /\ sales # {}

\* the rows of the response html whose listing passes the name filter of
\* playerName, in their order
OwnRows(playerName, html) ==
    SelectSeq(html, LAMBDA k : parsedRow[k] # <<>>
                               /\ nameMatched[<<playerName, parsedRow[k][1].title>>])

\* C11: when no year is supplied, the year a call resolves and the listings
\* it selects for storage are those of the same call on the response without
\* the listings that fail the name filter: a listing of another player
\* changes neither.
C11_ForeignListingsIgnored ==
    (call.pc = "returned" /\ call.fetchOk /\ call.targetYear = NoYear
        /\ call.result.error # "SCRAPE_ERROR") =>
        /\ call.result.inferredFirstBowmanYear
               = plan[<<call.playerName, NoYear, OwnRows(call.playerName, call.html)>>].firstYear
        /\ call.selected
               = plan[<<call.playerName, NoYear, OwnRows(call.playerName, call.html)>>]
                     .selection.salesToStore

\* C12: when a year is supplied, every result of a call whose fetch
\* completed reports the supplied year as the resolved year, whatever years
\* the listings have, and every row the call inserted has the supplied year.
C12_SuppliedYearAuthoritative ==
    (call.pc = "returned" /\ call.fetchOk /\ call.targetYear # NoYear) =>
        /\ call.result.inferredFirstBowmanYear = call.targetYear
        /\ \A r \in call.written : r.release_year = call.targetYear

\* the classified listings of the response html that pass the name filter
\* of playerName
NameMatchedOf(playerName, html) ==
    SelectSeq([i \in 1..Len(parseHtmlResponse(html)) |->
                  categorized[parseHtmlResponse(html)[i]]],
              LAMBDA s : nameMatched[<<playerName, s.title>>])

\* the same for every player and response, computed once
nameMatchedOf == [c \in PlayerNames \X Responses |-> NameMatchedOf(c[1], c[2])]

\* the listings of list in the class Class, of the year when there is one
OfClassAndYear(list, Class(_), year) ==
    SelectSeq(list, LAMBDA s : Class(s) /\ (year # NoYear => s.releaseYear = year))

\* what a call that resolved year stores of the name-matched listings list:
\* the base listings (of the year) when there is one, else the fallback ones
VariantSet(list, year) ==
    IF OfClassAndYear(list, IsBaseClass, year) # <<>>
    THEN OfClassAndYear(list, IsBaseClass, year)
    ELSE OfClassAndYear(list, IsFallbackClass, year)

\* C13: a call that got listings and whose store did not raise selected the
\* name-matched base listings of the resolved year when there is one, else
\* the name-matched fallback listings of that year, else nothing
\* (NO_VALID_SALES), also when listings of other years exist; without a
\* resolved year the same over all years. The rows of one call are all base
\* rows or all fallback rows.
C13_VariantSetSelected ==
    (call.pc = "returned" /\ call.result.error \in {NoError, "NO_VALID_SALES"}) =>
        /\ call.selected = VariantSet(nameMatchedOf[<<call.playerName, call.html>>],
                                      call.result.inferredFirstBowmanYear)
        /\ call.result.error = "NO_VALID_SALES" <=> call.selected = <<>>
        /\ \A r \in call.written :
               r.card_type = IF IsBaseClass(call.selected[1]) THEN "base" ELSE "refractor"
        /\ \/ \A i \in 1..Len(call.selected) : IsBaseClass(call.selected[i])
           \/ \A i \in 1..Len(call.selected) : IsFallbackClass(call.selected[i])

\* C13 witness: a call with a resolved year got base listings of the player,
\* none of that year, and ended with NO_VALID_SALES
C13_OtherYearsNotStored ==
    /\ call.pc = "returned"
    /\ call.result.error = "NO_VALID_SALES"
    /\ call.result.inferredFirstBowmanYear # NoYear
    /\ call.result.baseAutosFiltered > 0

\* parseHtmlResponse of every response, computed once
parsedResponse == [html \in Responses |-> parseHtmlResponse(html)]

\* the fetch of the returned call or one of its calls of insertSale raised
Raised == ~call.fetchOk \/ \E i \in 1..Len(call.outcomes) : call.outcomes[i] = "threw"

\* C15: a returned call has an error exactly when success is false, and its
\* outcome is NO_RESULTS exactly when the fetch succeeded with no parsable
\* listing, NO_VALID_SALES exactly when there was a listing and nothing was
\* selected, SCRAPE_ERROR exactly when the fetch or a store operation raised,
\* and success in every other case.
C15_OneOfFourOutcomes ==
    call.pc = "returned" =>
        /\ call.result.success \in BOOLEAN
        /\ call.result.error \in {NoError, "NO_RESULTS", "NO_VALID_SALES", "SCRAPE_ERROR"}
        /\ call.result.error # NoError <=> ~call.result.success
        /\ call.result.error = "NO_RESULTS" <=>
               (call.fetchOk /\ parsedResponse[call.html] = <<>>)
        /\ call.result.error = "NO_VALID_SALES" <=>
               /\ call.fetchOk /\ parsedResponse[call.html] # <<>>
               /\ plan[<<call.playerName, call.targetYear, call.html>>]
                      .selection.salesToStore = <<>>
        /\ call.result.error = "SCRAPE_ERROR" <=> Raised
        /\ call.result.success <=>
               /\ ~Raised
               /\ plan[<<call.playerName, call.targetYear, call.html>>]
                      .selection.salesToStore # <<>>

\* C15 witness: the fetch of a call succeeded, a store operation raised and
\* the call ended with SCRAPE_ERROR
C15_StoreRaised ==
    /\ call.pc = "returned"
    /\ call.fetchOk
    /\ Raised
    /\ call.result.error = "SCRAPE_ERROR"
    /\ ~call.result.success

C17_OnlyNumericUsdRowsKept ==
    (call.pc = "returned" /\ call.fetchOk) =>
        \A i \in 1..Len(parsedResponse[call.html]) :
            /\ parsedResponse[call.html][i].salePrice # NaN
            /\ \E k \in 1..Len(call.html) :
                /\ parsedRow[call.html[k]] = <<parsedResponse[call.html][i]>>
                /\ parseFloat(RawRows[call.html[k]].price) # NaN
                /\ RawRows[call.html[k]].check # <<>>
                /\ RawRows[call.html[k]].href # <<>>
                /\ RawRows[call.html[k]].currency = <<"U","S","D">>

\* C19: when a batch is done, every player of its list that was not
\* skipped for the time budget has been processed, a player whose run failed
\* or raised is recorded as failed, and the batch has its normal response:
\* no failure of one player ends the batch.
C19_FailureNeverAbortsBatch ==
    batch.pc = "done" =>
        /\ batch.response = "success"
        /\ Len(batch.records) = Len(batch.players) - batch.skipped
        /\ \A i \in 1..Len(batch.records) :
            /\ batch.records[i].player = batch.players[i]
            /\ batch.players[i] = JsonNull => batch.records[i].what = "failed"

C21_DelayBetweenPlayers ==
    [][(/\ batch.pc = "running"
        /\ batch.i < Len(batch.players)
        /\ batch'.pc \notin {"running", "done"})
            => batch'.pc = "delay"]_vars

\* C22: no step of a sequence of calls of scrapeAndStorePlayer removes or
\* changes a stored row: every row of the table before the step is a row of
\* the table after it, with all its columns.
C22_StoredSalesAppendOnly == [][sales \subseteq sales']_vars

\* C22 witness: a call has added a row to a table that held rows of earlier
\* calls, for its player and for the other one
C22_AddedBesideStoredRows ==
    /\ call.pc = "returned"
    /\ call.written # {}
    /\ \E r \in sales \ call.written : r.player_name = call.playerName
    /\ \E r \in sales \ call.written : r.player_name # call.playerName

\* C23: a result with success = true has a sample of at least one sale, and
\* its average, median and last sale price and its last sale date are not
\* null.
C23_SuccessHasMarketSummary ==
    (call.pc = "returned" /\ call.result.success) =>
        /\ call.result.sampleSize >= 1
        /\ call.result.averagePrice # NoPrice
        /\ call.result.medianPrice # NoPrice
        /\ call.result.lastSalePrice # NoPrice
        /\ call.result.lastSaleDate # NoDate

\* C24: in a result with success = true, salesInserted + salesDuplicate is
\* the number of listings selected for storage, salesInserted is the number
\* of rows the call added to the table, and salesTotal is at least
\* salesInserted; in a failed result salesInserted and salesDuplicate are 0.
C24_CountsOfStoreStep ==
    call.pc = "returned" =>
        IF call.result.success
        THEN /\ call.result.salesInserted + call.result.salesDuplicate = Len(call.selected)
             /\ call.result.salesInserted = Cardinality(call.written)
             /\ call.result.salesTotal >= call.result.salesInserted
        ELSE /\ call.result.salesInserted = 0
             /\ call.result.salesDuplicate = 0

\* C24 witness: a successful call has added a row for a player who had rows
\* of the resolved year already
C24_InsertedBesideEarlierRows ==
    /\ call.pc = "returned"
    /\ call.result.success
    /\ call.result.salesInserted >= 1
    /\ call.result.salesTotal > call.result.salesInserted

\* C25: a call that returns SCRAPE_ERROR has added no row: the table after
\* the call is the table before it.
C25_ScrapeErrorAddsNothing ==
    (call.pc = "returned" /\ call.result.error = "SCRAPE_ERROR") => call.written = {}

\* C26: in a result with success = true, every row of the sample of step 6
\* (the rows getPlayerSalesFromDb returns for the player, the resolved year
\* and the limit 5 on the table the call leaves) has the card_type the
\* result reports as cardType.
C26_SampleOfOneCardType ==
    (call.pc = "returned" /\ call.result.success) =>
        \A recentSales \in getPlayerSalesFromDb(sales, normalizedName[call.playerName],
                                                call.result.inferredFirstBowmanYear,
                                                RecentLimit) :
            \A k \in 1..Len(recentSales) : recentSales[k].card_type = call.result.cardType

\* C27: every row a call of scrapeAndStorePlayer has added has a title the
\* cleanup route does not exclude, and no call adds a row with the URL of a
\* row that a sweep has deleted.
C27_StoredListingsSurviveSweep ==
    output.kind = "scraped" /\ input.kind = "source" =>
        \A r \in output.written :
            /\ ~shouldExclude(r.title).exclude
            /\ r.ebay_url \notin output.deleted

(***************************************************************************)
(* categorizeListingSale and determineFirstBowmanYear on their own         *)
(***************************************************************************)
\* the longest list given to determineFirstBowmanYear
MaxSales == 3

ListYears == {NoYear, 2022, 2023, 2024}

\* the locals categorizeListingSale can return: base, fallback, excluded
ListFlags == {Flags(TRUE, FALSE, NoReason),
              Flags(FALSE, TRUE, [rule |-> "Numbered parallel", detail |-> <<>>]),
              Flags(FALSE, FALSE, [rule |-> "Graded card", detail |-> <<"p","s","a">>])}

ListSales ==
    {Classified([title |-> <<>>, ebayUrl |-> <<>>, ebayItemId |-> <<>>, salePrice |-> 0,
                 saleDate |-> 0, releaseYear |-> y], c) : y \in ListYears, c \in ListFlags}

\* the responses given by their titles: up to MaxListings different titles
NameResponses ==
    {titles \in UNION {[1..n -> 1..Len(NameTitles)] : n \in 0..MaxListings} :
        \A i, j \in 1..Len(titles) : i # j => titles[i] # titles[j]}

\* the rows a table is filled with before a call: price in cents, day of the
\* sale, year; two of them are of one day
StoredSales == <<
    [salePrice |-> 2025, saleDate |-> 2, releaseYear |-> 2023],
    [salePrice |-> 3000, saleDate |-> 2, releaseYear |-> 2023],
    [salePrice |-> 4000, saleDate |-> 3, releaseYear |-> 2022],
    [salePrice |-> 1550, saleDate |-> 1, releaseYear |-> 2023] >>

\* the most rows in a table before a call
MaxRows == 6

\* the row of the listing i of a table, a base row of Max Roe with the URL 4i
StoredRow(i, stored) ==
    SaleRow(0, <<"M","a","x"," ","R","o","e">>,
            [title |-> <<>>, ebayUrl |-> <<"4", DIGITS[i + 1]>>,
             ebayItemId |-> <<"4", DIGITS[i + 1]>>, salePrice |-> stored.salePrice,
             saleDate |-> stored.saleDate, releaseYear |-> stored.releaseYear],
            "base")

\* the tables: up to MaxRows rows, each one of StoredSales
Tables ==
    {{StoredRow(i, StoredSales[t[i]]) : i \in 1..Len(t)} :
        t \in {u \in UNION {[1..n -> 1..Len(StoredSales)] : n \in 0..MaxRows} :
                  \A i, j \in 1..Len(u) : i <= j => u[i] <= u[j]}}

InitPure ==
    /\ sales = {}
    /\ call = NoCall
    /\ script = NoScript
    /\ output = NoOutput
    /\ batch = NoBatch
    /\ limiter = NoLimiter
    /\ \/ \E title \in Titles : input = [kind |-> "listing", sale |-> ListingOf(title)]
       \/ \E n \in 0..MaxSales : \E list \in [1..n -> ListSales] :
              input = [kind |-> "sales", sales |-> list]
       \/ \E playerName \in NamePlayers, titles \in NameResponses :
              input = [kind |-> "response", playerName |-> playerName, titles |-> titles,
                       table |-> {}]
       \/ \E titles \in {<<3>>, <<6>>}, table \in Tables :
              input = [kind |-> "response", playerName |-> <<"M","a","x"," ","R","o","e">>, titles |-> titles,
                       table |-> table]

\* categorizeListingSale(input.sale), and what steps 2 to 4 of a call for the
\* player of the title select when the response holds this one listing
CategorizeListingSale ==
    /\ input.kind = "listing"
    /\ output = NoOutput
    /\ \E categorizedSale \in {categorizeListingSale(input.sale)} :
        output' = [kind |-> "categorized",
                   sale |-> categorizedSale,
                   selected |-> PlanCategorized(<<"M","a","x"," ","R","o","e">>, NoYear, <<categorizedSale>>)
                                   .selection.salesToStore]
    /\ UNCHANGED <<sales, call, script, input, batch, limiter>>

\* determineFirstBowmanYear(input.sales)
DetermineFirstBowmanYear ==
    /\ input.kind = "sales"
    /\ output = NoOutput
    /\ output' = [kind |-> "year", year |-> determineFirstBowmanYear(input.sales)]
    /\ UNCHANGED <<sales, call, script, input, batch, limiter>>

\* scrapeAndStorePlayer(input.playerName) on the table input.table, from the
\* parsed response on: steps 2 to 7 on the listings with the titles input.titles
ScrapeListings ==
    /\ input.kind = "response"
    /\ output = NoOutput
    /\ \E run \in {AfterFetch(input.table, input.playerName, NoYear,
                              PlanCategorized(input.playerName, NoYear,
                                  [k \in 1..Len(input.titles) |->
                                      categorizeListingSale(
                                          NameListing(input.titles[k], k))]))} :
       \E recentSales \in RecentSalesOf(run, input.playerName) :
        output' = [kind |-> "scraped", run |-> Summarized(run, recentSales)]
    /\ UNCHANGED <<sales, call, script, input, batch, limiter>>

\* the known years of the players the two ingestion paths are given
KnownYears == {2022, 2023}

\* scrapeAndStorePlayer and scrapePlayer, each on an empty table of its own,
\* for the same player, the same known year and the same response, which
\* holds the listing input.sale
ScrapeBothWays(playerName, targetYear) ==
    /\ input.kind = "listing"
    /\ output = NoOutput
    /\ \E rawSales \in {<<input.sale>>} :
       \E web \in {AfterFetch({}, playerName, targetYear,
                              PlanCategorized(playerName, targetYear,
                                  [k \in 1..Len(rawSales) |->
                                      categorizeListingSale(rawSales[k])]))} :
       \E cron \in {ScriptRun({}, playerName, rawSales,
                              SelectSeq(rawSales, LAMBDA s :
                                  /\ titleContainsPlayer(s.title, playerName)
                                  /\ isBaseAuto(s.title)
                                  /\ s.releaseYear = targetYear))} :
        output' = [kind |-> "both", targetYear |-> targetYear, web |-> web, cron |-> cron]
    /\ UNCHANGED <<sales, call, script, input, batch, limiter>>

NextPure ==
    \/ CategorizeListingSale
    \/ DetermineFirstBowmanYear
    \/ ScrapeListings
    \/ \E targetYear \in KnownYears : ScrapeBothWays(<<"M","a","x"," ","R","o","e">>, targetYear)

SpecPure == InitPure /\ [][NextPure]_vars

(***************************************************************************)
(* Properties of categorizeListingSale and determineFirstBowmanYear        *)
(***************************************************************************)
\* the rules in the order graded, lot/bundle, wrong product, in-person
\* autograph, numbered parallel, named parallel: which of them title matches
RuleHits(title) ==
    << FirstIncluded(GRADED_INDICATORS, toLowerCase(title)) # 0,
       FirstIncluded(LOT_INDICATORS, toLowerCase(title)) # 0 \/ FirstLotQuantity(title) # 0,
       FirstIncluded(EXCLUDED_PRODUCTS, toLowerCase(title)) # 0,
       FirstIncluded(IP_AUTOGRAPH_INDICATORS, toLowerCase(title)) # 0,
       SERIAL_PATTERN(title),
       FirstIncluded(PARALLEL_COLORS, toLowerCase(title)) # 0 >>

\* and the reasons each of them reports
RuleReasons ==
    << {"Graded card"}, {"Lot/bundle", "Lot quantity"}, {"Wrong product"},
       {"IP/aftermarket auto"}, {"Numbered parallel"}, {"Parallel"} >>

\* the rules every title matches, computed once
ruleHits == [title \in Titles |-> RuleHits(title)]

FirstRuleHit(title) ==
    IF \E k \in 1..Len(RuleReasons) : ruleHits[title][k]
    THEN SetMin({k \in 1..Len(RuleReasons) : ruleHits[title][k]})
    ELSE 0

\* C7: categorizeListingSale returns for every listing, and what it returns is
\* in exactly one of the classes base (isBaseAuto, not isRefractor, no
\* exclusion reason), fallback (isRefractor, not isBaseAuto) and excluded
\* (neither flag, with an exclusion reason); the two flags are never both
\* true, and a title that matches no rule is base.
C7_ExactlyOneClass ==
    /\ input.kind = "listing" =>
        \A c \in {categorizeListingSale(input.sale)} :
            c.isBaseAuto \in BOOLEAN /\ c.isRefractor \in BOOLEAN
    /\ output.kind = "categorized" =>
        /\ Cardinality({k \in 1..3 : << IsBaseClass(output.sale),
                                        IsFallbackClass(output.sale),
                                        IsExcludedClass(output.sale) >>[k]}) = 1
        /\ ~(output.sale.isBaseAuto /\ output.sale.isRefractor)
        /\ FirstRuleHit(input.sale.title) = 0 => IsBaseClass(output.sale)

\* C7 witness: a title with /499 and refractor has been classified as fallback
C7_FallbackClassified ==
    /\ output.kind = "categorized"
    /\ IsFallbackClass(output.sale)
    /\ output.sale.exclusionReason.rule = "Numbered parallel"

\* C8: the exclusion reason categorizeListingSale reports is that of the first
\* rule, in the order graded, lot/bundle, wrong product, in-person autograph,
\* numbered parallel, named parallel, that the title matches, and there is
\* none when the title matches no rule; a title with a grading token and a lot
\* token is reported as graded.
C8_FirstMatchingRuleReported ==
    output.kind = "categorized" =>
        IF FirstRuleHit(input.sale.title) = 0
        THEN output.sale.exclusionReason = NoReason
        ELSE output.sale.exclusionReason.rule
                 \in RuleReasons[FirstRuleHit(input.sale.title)]

\* C8 witness: a title with a grading token and a lot token, reported as graded
C8_GradedLotReportedGraded ==
    /\ output.kind = "categorized"
    /\ ruleHits[input.sale.title][1] /\ ruleHits[input.sale.title][2]
    /\ output.sale.exclusionReason.rule = "Graded card"

\* C9: a listing whose title holds an in-person autograph indicator is
\* classified neither as base nor as fallback, also when the title holds
\* refractor and /499, and steps 2 to 4 of a call select no such listing.
C9_InPersonNeverEligible ==
    (output.kind = "categorized" /\ ruleHits[input.sale.title][4]) =>
        /\ ~output.sale.isBaseAuto
        /\ ~output.sale.isRefractor
        /\ output.selected = <<>>

\* C9 witness: an in-person title with refractor and /499 has been classified
C9_InPersonRefractorClassified ==
    /\ output.kind = "categorized"
    /\ ruleHits[input.sale.title][4]
    /\ includes(toLowerCase(input.sale.title), <<"r","e","f","r","a","c","t","o","r">>)
    /\ includes(toLowerCase(input.sale.title), <<"/","4","9","9">>)
    /\ output.sale.exclusionReason.rule = "IP/aftermarket auto"

\* the years of the listings of list that have a year and satisfy Class
YearsOf(list, Class(_)) ==
    {list[k].releaseYear : k \in {i \in 1..Len(list) :
                                     list[i].releaseYear # NoYear /\ Class(list[i])}}

\* C10: determineFirstBowmanYear returns the least year of the base listings
\* when one of them has a year, however often each year occurs; else the
\* least year of the fallback listings when one of them has a year; else
\* null. The years of excluded listings do not count.
C10_EarliestBaseElseFallbackYear ==
    output.kind = "year" =>
        /\ YearsOf(input.sales, IsBaseClass) # {} =>
               /\ output.year \in YearsOf(input.sales, IsBaseClass)
               /\ \A y \in YearsOf(input.sales, IsBaseClass) : output.year <= y
        /\ (YearsOf(input.sales, IsBaseClass) = {}
                /\ YearsOf(input.sales, IsFallbackClass) # {}) =>
               /\ output.year \in YearsOf(input.sales, IsFallbackClass)
               /\ \A y \in YearsOf(input.sales, IsFallbackClass) : output.year <= y
        /\ (YearsOf(input.sales, IsBaseClass) = {}
                /\ YearsOf(input.sales, IsFallbackClass) = {}) =>
               output.year = NoYear

\* C10 witness: two base listings of 2023, one of 2022 and the result 2022
C10_RarerEarlierYearReturned ==
    /\ output.kind = "year"
    /\ Len(input.sales) = 3
    /\ \A k \in 1..3 : IsBaseClass(input.sales[k])
    /\ Cardinality({k \in 1..3 : input.sales[k].releaseYear = 2023}) = 2
    /\ Cardinality({k \in 1..3 : input.sales[k].releaseYear = 2022}) = 1
    /\ output.year = 2022

\* the parts of more than 2 characters of the names of NamePlayers
NameTokens(playerName) ==
    IF playerName = <<"B","o"," ","U","n","i","v","e","r","s","i","t","y">> THEN {<<"u","n","i","v","e","r","s","i","t","y">>} ELSE {<<"m","a","x">>, <<"r","o","e">>}

\* the listings of the response input.titles whose title holds, in any case,
\* every part of more than 2 characters of the player's name
OwnListings ==
    {k \in 1..Len(input.titles) :
        \A token \in NameTokens(input.playerName) :
            includes(toLowerCase(NameTitles[input.titles[k]]), token)}

\* the listing k of the response is the team set listed for Bo University
IsTeamSet(k) ==
    /\ input.playerName = <<"B","o"," ","U","n","i","v","e","r","s","i","t","y">>
    /\ NameTitles[input.titles[k]] = <<"B","o","w","m","a","n"," ","U","n","i","v","e","r","s","i","t","y"," ","T","e","a","m"," ","S","e","t">>

\* the listings of the response that count as Class for the player
CountedAs(Class(_)) ==
    {k \in OwnListings :
        ~IsTeamSet(k) /\ Class(categorizeListingSale(NameListing(input.titles[k], k)))}

\* C14: a call counts as base and as fallback listings, and stores, only
\* listings whose title holds every part of more than 2 characters of the
\* player's name, in any case; the listing Bowman University Team Set is
\* neither counted nor stored for the player Bo University.
C14_OnlyNamedListingsCounted ==
    (output.kind = "scraped" /\ Len(input.titles) > 0) =>
        /\ output.run.result.baseAutosFiltered = Cardinality(CountedAs(IsBaseClass))
        /\ output.run.result.refractorsFiltered = Cardinality(CountedAs(IsFallbackClass))
        /\ \A r \in output.run.rows \ input.table :
               \E k \in OwnListings : ~IsTeamSet(k) /\ r.title = NameTitles[input.titles[k]]

\* C14 witness: a call for Bo University on the team set and a base listing of
\* the player has counted and stored one listing
C14_TeamSetNotCounted ==
    /\ output.kind = "scraped"
    /\ \E k \in 1..Len(input.titles) : IsTeamSet(k)
    /\ output.run.result.baseAutosFiltered = 1
    /\ Cardinality(output.run.rows) = 1

\* the rows of the table after the call that step 6 reads: those of the
\* player's normalized name, of the resolved year when there is one
SummaryRows ==
    {r \in output.run.rows :
        /\ r.normalized_player_name = trim(toLowerCase(input.playerName))
        /\ output.run.result.inferredFirstBowmanYear # NoYear =>
               r.release_year = output.run.result.inferredFirstBowmanYear}

\* the least of 5 and n
AtMostFive(n) == IF n < 5 THEN n ELSE 5

RECURSIVE PriceSum(_)
PriceSum(rows) ==
    IF rows = {} THEN 0
    ELSE LET r == CHOOSE x \in rows : TRUE
         IN  r.sale_price + PriceSum(rows \ {r})

\* the price at place j of the prices of rows in ascending order
PriceAt(rows, j) ==
    CHOOSE v \in {r.sale_price : r \in rows} :
        /\ Cardinality({r \in rows : r.sale_price < v}) < j
        /\ j <= Cardinality({r \in rows : r.sale_price <= v})

\* twice the median of the prices of the n rows
TwiceMedian(rows, n) ==
    IF n % 2 = 1 THEN 2 * PriceAt(rows, (n + 1) \div 2)
    ELSE PriceAt(rows, n \div 2) + PriceAt(rows, n \div 2 + 1)

\* result holds the market summary of the rows recent, n of them
IsSummaryOf(result, recent, n) ==
    /\ result.sampleSize = n
    /\ 2 * (n * result.averagePrice - PriceSum(recent)) \in (0 - n)..n
    /\ 2 * result.medianPrice - TwiceMedian(recent, n) \in {-1, 0, 1}
    /\ n % 2 = 1 => 2 * result.medianPrice = TwiceMedian(recent, n)
    /\ \E latest \in recent :
        /\ \A r \in recent : r.sale_date <= latest.sale_date
        /\ result.lastSalePrice = latest.sale_price
        /\ result.lastSaleDate = latest.sale_date

\* C18: the market summary of a successful call is that of min(5, k) rows
\* with the latest sale dates among the k rows of the table, after the call,
\* of the player's normalized name (and of the resolved year, when there is
\* one): sampleSize is their number, averagePrice their mean to the nearest
\* cent, medianPrice their middle price (the mean of the two middle prices
\* when their number is even), lastSalePrice and lastSaleDate those of a
\* latest row; all are null when there is no such row.
C18_SummaryOfFiveLatest ==
    (output.kind = "scraped" /\ output.run.result.success) =>
        IF SummaryRows = {}
        THEN /\ output.run.result.sampleSize = 0
             /\ output.run.result.averagePrice = NoPrice
             /\ output.run.result.medianPrice = NoPrice
             /\ output.run.result.lastSalePrice = NoPrice
             /\ output.run.result.lastSaleDate = NoDate
        ELSE \E recent \in SUBSET SummaryRows :
                /\ Cardinality(recent) = AtMostFive(Cardinality(SummaryRows))
                /\ \A r \in recent, older \in SummaryRows \ recent :
                       older.sale_date <= r.sale_date
                /\ IsSummaryOf(output.run.result, recent, Cardinality(recent))

\* C18 witness: a call on a table of six rows of the player, two of them of
\* the latest day, has summarized five rows
C18_SixRowsFiveSummarized ==
    /\ output.kind = "scraped"
    /\ output.run.result.success
    /\ Cardinality(SummaryRows) > 5
    /\ output.run.result.sampleSize = 5
    /\ Cardinality({r \in SummaryRows : \A x \in SummaryRows : x.sale_date <= r.sale_date}) = 2

\* C28: for the same player, known year and response, scrapePlayer stores
\* the listings scrapeAndStorePlayer stores when scrapeAndStorePlayer
\* selects base variants, and fails with nothing stored when
\* scrapeAndStorePlayer has no base variant of the year.
C28_IngestionPathsAgree ==
    output.kind = "both" =>
        IF output.web.result.success /\ output.web.result.cardType = "base"
        THEN {r.ebay_url : r \in output.cron.rows} = {r.ebay_url : r \in output.web.rows}
        ELSE ~output.cron.success /\ output.cron.rows = {}

\* the players the handler has processed with this outcome, in order
RecordedAs(what) ==
    SelectSeq([k \in 1..Len(batch.records) |-> batch.records[k].player],
              LAMBDA player : \E k \in 1..Len(batch.records) :
                                 batch.records[k] = Record(player, what))

\* C29: in the cron handler, at the head of the loop, during the delay and
\* at the end, the players before the index of the loop have been processed
\* once each, in the order of the list; refreshed counts those that
\* succeeded and failed those that failed, so none is counted twice; errors
\* has one entry for each failed player, in order; and at the end
\* refreshed + failed + skipped is the number of players.
C29_EachPlayerAccountedOnce ==
    (batch.handler = "cron" /\ batch.pc \in {"check", "delay", "done"}) =>
        /\ Len(batch.records) = (IF batch.pc = "done" THEN Len(batch.players) - batch.skipped
                                 ELSE batch.i - 1)
        /\ \A k \in 1..Len(batch.records) : batch.records[k].player = batch.players[k]
        /\ batch.refreshed = Len(RecordedAs("succeeded"))
        /\ batch.failed = Len(RecordedAs("failed"))
        /\ batch.refreshed + batch.failed = Len(batch.records)
        /\ batch.errors = RecordedAs("failed")
        /\ batch.pc = "done" =>
               batch.refreshed + batch.failed + batch.skipped = Len(batch.players)

\* C29 witness: the cron handler is done with two players, one refreshed and
\* one failed with its entry in errors
C29_OneRefreshedOneFailed ==
    /\ batch.handler = "cron"
    /\ batch.pc = "done"
    /\ batch.refreshed = 1
    /\ batch.failed = 1
    /\ Len(batch.errors) = 1

\* the tokens of the bucket of a key once refilled for the time now, computed
\* from the bucket as a whole number of intervals since its last refill
TokensAvailable(l, key) ==
    IF key \notin DOMAIN l.buckets THEN l.config.maxTokens
    ELSE LET intervals == CHOOSE n \in 0..MaxTime :
                              /\ n * l.config.refillInterval <= l.now - l.buckets[key].lastRefill
                              /\ (n + 1) * l.config.refillInterval
                                     > l.now - l.buckets[key].lastRefill
             tokens == l.buckets[key].tokens + intervals * l.config.refillRate
         IN  IF tokens > l.config.maxTokens THEN l.config.maxTokens ELSE tokens

\* C30: the tokens of every bucket stay within 0..maxTokens; the calls
\* allowed since a bucket was created are at most maxTokens plus refillRate
\* for every whole refill interval since then; a check is allowed exactly
\* when the refilled bucket has a token and then takes one, a denied check
\* takes none; a status call changes no bucket and reports the refilled
\* bucket.
C30_TokenBucket ==
    /\ [](\A key \in DOMAIN limiter.buckets :
            /\ limiter.buckets[key].tokens \in 0..limiter.config.maxTokens
            /\ limiter.granted[key]
                   <= limiter.config.maxTokens
                        + limiter.config.refillRate
                            * ((limiter.now - limiter.created[key])
                                   \div limiter.config.refillInterval))
    /\ [][/\ limiter'.last.op = "check" =>
               LET key == limiter'.last.key
                   available == TokensAvailable(limiter, key)
               IN  /\ limiter'.last.result.allowed = (available > 0)
                   /\ limiter'.buckets[key].tokens
                          = (IF available > 0 THEN available - 1 ELSE available)
                   /\ limiter'.last.result.remaining = limiter'.buckets[key].tokens
          /\ limiter'.last.op = "status" =>
               /\ limiter'.buckets = limiter.buckets
               /\ limiter'.last.result.remaining = TokensAvailable(limiter, limiter'.last.key)
               /\ limiter'.last.result.allowed
                      = (TokensAvailable(limiter, limiter'.last.key) > 0)]_vars

\* C30 witness: a check is denied on an empty bucket that has been refilled
\* before, after as many allowed calls as the bound admits
C30_DeniedAtTheBound ==
    /\ limiter.last.op = "check"
    /\ ~limiter.last.result.allowed
    /\ limiter.now - limiter.created[limiter.last.key] >= limiter.config.refillInterval
    /\ limiter.granted[limiter.last.key]
           = limiter.config.maxTokens
               + limiter.config.refillRate
                   * ((limiter.now - limiter.created[limiter.last.key])
                          \div limiter.config.refillInterval)

====
